---------------------------- MODULE Spec2Model ----------------------------
(***************************************************************************)
(* A model of the content-addressed comparison engine of dir-compare:      *)
(* the file catalog (FileSet) and its two indexes, compareFileSets, and    *)
(* the directory collapser (buildSmartTree, markEntireDirectoriesNew,      *)
(* removeEmptyDirectories), followed by the directory scanner.             *)
(*                                                                         *)
(* Strings are sequences of one-character strings, so that filepath.Dir,   *)
(* strings.Split and strings.Join are computed rather than assumed.        *)
(* Pointers to FileInfo and TreeNode values are modelled by the field ptr  *)
(* of a record and by the address of a node in a heap.                     *)
(***************************************************************************)
EXTENDS Integers, Sequences, FiniteSets, TLC

VARIABLES
    pc,         \* position of the run
    set1,       \* FileSet of the first directory set
    set2,       \* FileSet of the second directory set
    result,     \* ComparisonResult of compareFileSets(set1, set2)
    treeArgs,   \* arguments of the last buildSmartTree call
    tree,       \* heap and root of the tree the last buildSmartTree returned
    pruning,    \* removeEmptyDirectories called on a tree: the tree before the
                \* first call, the tree after it, the booleans returned
    hashed      \* hashFile called on paths: the paths and what the calls returned

\* the scanner: walkDirectoriesWithLimit(dirs, limit) on a disk
VARIABLES
    disk,           \* the file system: existing roots, walk order, contents
    dirs,           \* the argument dirs
    limit,          \* the argument limit
    numCPU,         \* runtime.NumCPU()
    walk,           \* the root being walked and the entry reached in it
    allTasks,       \* the local allTasks
    taskCount,      \* the local taskCount
    warnings,       \* the warning lines printed, in order
    seqIdx,         \* processFilesSequentially: index of the next task
    jobs,           \* processFilesInParallel: the batches
    jobChannel,     \* buffered channel of batches: the queue and the closed flag
    resultChannel,  \* buffered channel of batch results
    feeder,         \* index of the next batch the feeding goroutine sends
    workers,        \* the hashWorker goroutines
    wg,             \* the counter of the sync.WaitGroup
    fileSet,        \* the catalog being assembled
    returned        \* what the scan returned: "no", "ok"

\* the functions called on their own
unitVars == <<pruning, hashed>>

cmpVars == <<set1, set2, result, treeArgs, tree, unitVars>>

walkVars == <<disk, dirs, limit, numCPU, walk, allTasks, taskCount>>

parVars == <<jobs, jobChannel, resultChannel, feeder, workers, wg>>

scanVars == <<walkVars, warnings, seqIdx, parVars, fileSet, returned>>

vars == <<pc, cmpVars, scanVars>>

----------------------------------------------------------------------------
(* Bounds *)

\* most records in one catalog
MaxFiles == 3

\* the content fingerprints of the files
Hashes == {"h1", "h2"}

----------------------------------------------------------------------------
(* Strings and paths *)

\* string(filepath.Separator)
Sep == "/"

\* the path "." that filepath.Dir returns for a path without a directory
Dot == <<".">>

\* the empty string
Empty == <<>>

\* index of the last separator of p, 0 when there is none
LastSep(p) ==
    IF \E i \in 1..Len(p) : p[i] = Sep
    THEN CHOOSE i \in 1..Len(p) :
            /\ p[i] = Sep
            /\ \A j \in (i+1)..Len(p) : p[j] # Sep
    ELSE 0

\* filepath.Dir on a clean relative path
Dir(p) ==
    IF LastSep(p) = 0 THEN Dot ELSE SubSeq(p, 1, LastSep(p) - 1)

\* the final path component (os.FileInfo.Name of the walked file)
Base(p) == SubSeq(p, LastSep(p) + 1, Len(p))

\* index of the first separator of p, 0 when there is none
FirstSep(p) ==
    IF \E i \in 1..Len(p) : p[i] = Sep
    THEN CHOOSE i \in 1..Len(p) :
            /\ p[i] = Sep
            /\ \A j \in 1..(i-1) : p[j] # Sep
    ELSE 0

RECURSIVE Split(_)
\* strings.Split(p, string(filepath.Separator))
Split(p) ==
    IF FirstSep(p) = 0 THEN <<p>>
    ELSE <<SubSeq(p, 1, FirstSep(p) - 1)>> \o Split(SubSeq(p, FirstSep(p) + 1, Len(p)))

RECURSIVE Join(_)
\* strings.Join(parts, string(filepath.Separator))
Join(parts) ==
    IF Len(parts) = 0 THEN Empty
    ELSE IF Len(parts) = 1 THEN parts[1]
    ELSE parts[1] \o <<Sep>> \o Join(Tail(parts))

----------------------------------------------------------------------------
(* FileInfo and FileSet *)

\* &FileInfo{...}; ptr is the identity of the pointer (Size is left out: no
\* decision reads it)
FileInfo(ptr, relPath, absPath, name, hash, rootDir) ==
    [ptr |-> ptr, RelativePath |-> relPath, AbsolutePath |-> absPath,
     Name |-> name, Hash |-> hash, RootDir |-> rootDir]

\* m[k] = append(m[k], v) on a map of lists
MapAppend(m, k, v) ==
    IF k \in DOMAIN m THEN [m EXCEPT ![k] = Append(@, v)]
    ELSE m @@ (k :> <<v>>)

EmptyMap == [k \in {} |-> <<>>]

EmptyFileSet == [Files |-> <<>>, NameMap |-> EmptyMap, HashMap |-> EmptyMap]

\* a slip: the index entry of a name or fingerprint is replaced by the record
AddFileInfoOverwrite(fs, fileInfo) ==
    [Files   |-> Append(fs.Files, fileInfo),
     NameMap |-> (fileInfo.Name :> <<fileInfo>>) @@ fs.NameMap,
     HashMap |-> (fileInfo.Hash :> <<fileInfo>>) @@ fs.HashMap]

\* the three appends that put one record into a catalog
AddFileInfo(fs, fileInfo) ==
    [Files   |-> Append(fs.Files, fileInfo),
     NameMap |-> MapAppend(fs.NameMap, fileInfo.Name, fileInfo),
     HashMap |-> MapAppend(fs.HashMap, fileInfo.Hash, fileInfo)]

RECURSIVE MakeFileSet(_)
\* the catalog a scan assembles from the records infos, in this order
MakeFileSet(infos) ==
    IF Len(infos) = 0 THEN EmptyFileSet
    ELSE AddFileInfo(MakeFileSet(SubSeq(infos, 1, Len(infos) - 1)), infos[Len(infos)])

----------------------------------------------------------------------------
(* compareFileSets *)

EmptyResult ==
    [SameNameDifferentHash |-> <<>>, NameMappings |-> EmptyMap,
     UniqueToSet2 |-> <<>>, UniqueToSet1 |-> <<>>]

\* m[k] = v on a map
MapPut(m, k, v) ==
    IF k \in DOMAIN m THEN [m EXCEPT ![k] = v] ELSE m @@ (k :> v)

\* a slip: the fingerprint test is dropped, so that the name decides alone
ClassifySet2NoHashTest(s1, file2, res) ==
    IF file2.Name \in DOMAIN s1.NameMap
    THEN [res EXCEPT !.SameNameDifferentHash = Append(@, file2),
                     !.NameMappings = MapPut(@, file2.Name, s1.NameMap[file2.Name])]
    ELSE [res EXCEPT !.UniqueToSet2 = Append(@, file2)]

\* a slip: a modified record is also reported as unique (the else is lost)
ClassifySet2NoElse(s1, file2, res) ==
    IF file2.Hash \in DOMAIN s1.HashMap THEN res
    ELSE IF file2.Name \in DOMAIN s1.NameMap
    THEN [res EXCEPT !.SameNameDifferentHash = Append(@, file2),
                     !.NameMappings = MapPut(@, file2.Name, s1.NameMap[file2.Name]),
                     !.UniqueToSet2 = Append(@, file2)]
    ELSE [res EXCEPT !.UniqueToSet2 = Append(@, file2)]

\* a slip: only the first same-named record of set1 is kept as mapping target
ClassifySet2FirstTarget(s1, file2, res) ==
    IF file2.Hash \in DOMAIN s1.HashMap THEN res
    ELSE IF file2.Name \in DOMAIN s1.NameMap
    THEN [res EXCEPT !.SameNameDifferentHash = Append(@, file2),
                     !.NameMappings = MapPut(@, file2.Name, <<s1.NameMap[file2.Name][1]>>)]
    ELSE [res EXCEPT !.UniqueToSet2 = Append(@, file2)]

\* the body of the loop over set2.Files
ClassifySet2(s1, file2, res) ==
    IF file2.Hash \in DOMAIN s1.HashMap THEN res
    ELSE IF file2.Name \in DOMAIN s1.NameMap
    THEN [res EXCEPT !.SameNameDifferentHash = Append(@, file2),
                     !.NameMappings = MapPut(@, file2.Name, s1.NameMap[file2.Name])]
    ELSE [res EXCEPT !.UniqueToSet2 = Append(@, file2)]

\* a slip: the name test is dropped on the set1 side
ClassifySet1NoNameTest(s2, file1, res) ==
    IF file1.Hash \in DOMAIN s2.HashMap THEN res
    ELSE [res EXCEPT !.UniqueToSet1 = Append(@, file1)]

\* the body of the loop over set1.Files
ClassifySet1(s2, file1, res) ==
    IF file1.Hash \in DOMAIN s2.HashMap THEN res
    ELSE IF file1.Name \notin DOMAIN s2.NameMap
    THEN [res EXCEPT !.UniqueToSet1 = Append(@, file1)]
    ELSE res

RECURSIVE LoopSet2(_, _, _, _)
\* for _, file2 := range set2.Files, from index i on
LoopSet2(s1, s2, i, res) ==
    IF i > Len(s2.Files) THEN res
    ELSE LoopSet2(s1, s2, i + 1, ClassifySet2(s1, s2.Files[i], res))

RECURSIVE LoopSet1(_, _, _, _)
\* for _, file1 := range set1.Files, from index i on
LoopSet1(s1, s2, i, res) ==
    IF i > Len(s1.Files) THEN res
    ELSE LoopSet1(s1, s2, i + 1, ClassifySet1(s2, s1.Files[i], res))

compareFileSets(s1, s2) ==
    LoopSet1(s1, s2, 1, LoopSet2(s1, s2, 1, EmptyResult))

----------------------------------------------------------------------------
(* TreeNode: a tree is a heap of nodes (a sequence, addressed by index)    *)
(* and the address of its root                                             *)

\* the nil *TreeNode
NoNode == 0

\* &TreeNode{Name: name, IsDir: true, Children: make(map), Parent: parent}
NewDirNode(name, parent) ==
    [Name |-> name, IsDir |-> TRUE, Files |-> <<>>, Children |-> EmptyMap,
     Parent |-> parent, IsEntireDir |-> FALSE]

\* delete(m, k)
MapDelete(m, k) == [x \in (DOMAIN m) \ {k} |-> m[x]]

RECURSIVE DescendNoReuse(_, _, _, _, _)
\* a slip: a directory node is made for every file, also when the child exists
DescendNoReuse(heap, current, parts, i, file) ==
    IF i > Len(parts) THEN heap
    ELSE IF i = Len(parts)
    THEN [heap EXCEPT ![current].Files = Append(@, file)]
    ELSE LET new == Len(heap) + 1
             linked == [heap EXCEPT ![current].Children =
                            (parts[i] :> new) @@ heap[current].Children]
         IN  DescendNoReuse(Append(linked, NewDirNode(parts[i], current)), new,
                            parts, i + 1, file)

RECURSIVE Descend(_, _, _, _, _)
\* for i, part := range parts, from index i on, with current the node reached
Descend(heap, current, parts, i, file) ==
    IF i > Len(parts) THEN heap
    ELSE IF i = Len(parts)
    THEN [heap EXCEPT ![current].Files = Append(@, file)]
    ELSE IF parts[i] \notin DOMAIN heap[current].Children
    THEN LET new == Len(heap) + 1
             linked == [heap EXCEPT ![current].Children = MapPut(@, parts[i], new)]
         IN  Descend(Append(linked, NewDirNode(parts[i], current)), new, parts, i + 1, file)
    ELSE Descend(heap, heap[current].Children[parts[i]], parts, i + 1, file)

\* the body of the loop over files in buildSmartTree and buildTree
InsertFile(heap, root, file) ==
    Descend(heap, root, Split(file.RelativePath), 1, file)

RECURSIVE InsertFiles(_, _, _, _)
\* for _, file := range files, from index i on
InsertFiles(heap, root, files, i) ==
    IF i > Len(files) THEN heap
    ELSE InsertFiles(InsertFile(heap, root, files[i]), root, files, i + 1)

RECURSIVE DirChain(_)
\* the directories the inner loop of the directory map adds, starting at dir
DirChain(dir) ==
    IF dir = Dot \/ dir = Empty THEN {}
    ELSE {dir} \cup DirChain(Dir(dir))

\* directoriesInSourceSet: the keys set to true
DirectoriesInSourceSet(sourceSet) ==
    UNION {DirChain(Dir(sourceSet.Files[i].RelativePath)) : i \in 1..Len(sourceSet.Files)}

RECURSIVE PathParts(_, _)
\* pathParts, collected along the Parent links from current
PathParts(heap, current) ==
    IF current = NoNode THEN <<>>
    ELSE IF heap[current].Name = Empty THEN <<>>
    ELSE Append(PathParts(heap, heap[current].Parent), heap[current].Name)

\* dirPath of a node
DirPath(heap, node) == Join(PathParts(heap, node))

\* the addresses of the children of a node
ChildNodes(heap, node) ==
    {heap[node].Children[k] : k \in DOMAIN heap[node].Children}

\* a slip: the files of the source set are not looked at
EntireDecisionChildrenOnly(heap, node, sourceSet, otherSet, srcDirs) ==
    IF heap[node].Name = Empty THEN FALSE
    ELSE
    LET hasChildDirs == \E c \in ChildNodes(heap, node) : heap[c].IsDir
        allChildrenAreEntire ==
            \A c \in ChildNodes(heap, node) : heap[c].IsDir => heap[c].IsEntireDir
    IN  (Len(heap[node].Files) > 0 \/ hasChildDirs) /\ allChildrenAreEntire

\* a slip: the marks of the child directories are not looked at
EntireDecisionIgnoreChildren(heap, node, sourceSet, otherSet, srcDirs) ==
    IF heap[node].Name = Empty THEN FALSE
    ELSE
    LET dirPath == DirPath(heap, node)
        inDir == {i \in 1..Len(sourceSet.Files) :
                    Dir(sourceSet.Files[i].RelativePath) = dirPath}
        filesInDirCount == Cardinality(inDir)
        filesWithoutMatchCount ==
            Cardinality({i \in inDir :
                            sourceSet.Files[i].Hash \notin DOMAIN otherSet.HashMap})
        allDirectFilesUnmatched ==
            filesInDirCount = 0
            \/ (filesInDirCount > 0 /\ filesInDirCount = filesWithoutMatchCount)
        hasChildDirs == \E c \in ChildNodes(heap, node) : heap[c].IsDir
        hasContent == filesInDirCount > 0 \/ hasChildDirs
    IN  IF dirPath \notin srcDirs THEN FALSE
        ELSE hasContent /\ allDirectFilesUnmatched

\* the value markEntireDirectoriesNew gives node.IsEntireDir, once the
\* children of the node are marked
EntireDecision(heap, node, sourceSet, otherSet, srcDirs) ==
    IF heap[node].Name = Empty THEN FALSE
    ELSE
    LET dirPath == DirPath(heap, node)
        inDir == {i \in 1..Len(sourceSet.Files) :
                    Dir(sourceSet.Files[i].RelativePath) = dirPath}
        filesInDirCount == Cardinality(inDir)
        filesWithoutMatchCount ==
            Cardinality({i \in inDir :
                            sourceSet.Files[i].Hash \notin DOMAIN otherSet.HashMap})
        allDirectFilesUnmatched ==
            filesInDirCount = 0
            \/ (filesInDirCount > 0 /\ filesInDirCount = filesWithoutMatchCount)
        hasChildDirs == \E c \in ChildNodes(heap, node) : heap[c].IsDir
        allChildrenAreEntire ==
            \A c \in ChildNodes(heap, node) : heap[c].IsDir => heap[c].IsEntireDir
        hasContent == filesInDirCount > 0 \/ hasChildDirs
    IN  IF dirPath \notin srcDirs THEN FALSE
        ELSE hasContent /\ allDirectFilesUnmatched
                /\ (~hasChildDirs \/ allChildrenAreEntire)

RECURSIVE markEntireDirectoriesNew(_, _, _, _, _)
RECURSIVE MarkChildren(_, _, _, _, _)
\* for _, child := range node.Children, over the children still to visit
MarkChildren(heap, todo, sourceSet, otherSet, srcDirs) ==
    IF todo = {} THEN heap
    ELSE LET child == CHOOSE c \in todo : TRUE
         IN  MarkChildren(markEntireDirectoriesNew(heap, child, sourceSet, otherSet, srcDirs),
                          todo \ {child}, sourceSet, otherSet, srcDirs)

markEntireDirectoriesNew(heap, node, sourceSet, otherSet, srcDirs) ==
    IF ~heap[node].IsDir THEN heap
    ELSE LET marked == MarkChildren(heap, ChildNodes(heap, node), sourceSet, otherSet, srcDirs)
         IN  [marked EXCEPT ![node].IsEntireDir =
                                EntireDecision(marked, node, sourceSet, otherSet, srcDirs)]

RECURSIVE removeEmptyDirectories(_, _)
RECURSIVE RemoveChildren(_, _, _)
RECURSIVE RemoveChildrenEarlyTest(_, _, _)
\* a slip: a child is judged by what it held before its own children were
\* visited
RemoveChildrenEarlyTest(heap, node, todo) ==
    IF todo = {} THEN heap
    ELSE LET name == CHOOSE k \in todo : TRUE
             child == heap[node].Children[name]
             r == removeEmptyDirectories(heap, child)
             keep == ~heap[child].IsDir
                        \/ Len(heap[child].Files) > 0
                        \/ DOMAIN heap[child].Children # {}
             after == IF keep THEN r.heap
                      ELSE [r.heap EXCEPT ![node].Children = MapDelete(@, name)]
         IN  RemoveChildrenEarlyTest(after, node, todo \ {name})

\* for name, child := range node.Children, over the names still to visit
RemoveChildren(heap, node, todo) ==
    IF todo = {} THEN heap
    ELSE LET name == CHOOSE k \in todo : TRUE
             r == removeEmptyDirectories(heap, heap[node].Children[name])
             after == IF r.keep THEN r.heap
                      ELSE [r.heap EXCEPT ![node].Children = MapDelete(@, name)]
         IN  RemoveChildren(after, node, todo \ {name})

\* a slip: a directory is kept for its own files only
removeEmptyDirectoriesOwnFiles(heap, node) ==
    IF ~heap[node].IsDir THEN [heap |-> heap, keep |-> TRUE]
    ELSE LET after == RemoveChildren(heap, node, DOMAIN heap[node].Children)
         IN  [heap |-> after, keep |-> Len(after[node].Files) > 0]

\* the heap after the call and the boolean the call returns
removeEmptyDirectories(heap, node) ==
    IF ~heap[node].IsDir THEN [heap |-> heap, keep |-> TRUE]
    ELSE LET after == RemoveChildren(heap, node, DOMAIN heap[node].Children)
         IN  [heap |-> after,
              keep |-> Len(after[node].Files) > 0
                        \/ Cardinality(DOMAIN after[node].Children) > 0]

\* the tree before any call
NoTree == [heap |-> <<>>, root |-> NoNode]

\* removeEmptyDirectories has not been called on a tree of its own
NoPruning == [before |-> NoTree, first |-> NoTree, keep |-> <<>>]

\* the tree with its root alone
RootOnly == [heap |-> <<NewDirNode(Empty, NoNode)>>, root |-> 1]

buildSmartTree(files, sourceSet, otherSet) ==
    LET built  == InsertFiles(RootOnly.heap, RootOnly.root, files, 1)
        marked == markEntireDirectoriesNew(built, RootOnly.root, sourceSet, otherSet,
                                           DirectoriesInSourceSet(sourceSet))
    IN  [heap |-> removeEmptyDirectories(marked, RootOnly.root).heap,
         root |-> RootOnly.root]

\* buildTree(files): the tree of the files, no node marked, none removed
buildTree(files) ==
    [heap |-> InsertFiles(RootOnly.heap, RootOnly.root, files, 1),
     root |-> RootOnly.root]

----------------------------------------------------------------------------
(* The scanner: the disk, hashFile and the tasks *)

\* the content of a file that cannot be opened or read
Unreadable == "unreadable"

\* the SHA-256 fingerprint of a content, as a table over the contents used
Sha256(content) ==
    CASE content = "" -> "e3b0c44298fc1c149afbf4c8996fb92427ae41e4649b934ca495991b7852b855"
      [] content = "c1" -> "h1"
      [] content = "c2" -> "h2"
      [] OTHER -> "h0"

\* a slip: the fingerprint is taken of the path and the content together
hashFileWithPath(d, filePath) ==
    IF filePath \notin DOMAIN d.content \/ d.content[filePath] = Unreadable
    THEN [hash |-> "", err |-> TRUE]
    ELSE [hash |-> IF filePath[1] = "b" THEN "h0" ELSE Sha256(d.content[filePath]),
          err |-> FALSE]

\* hashFile(filePath) on disk d: the fingerprint and whether err # nil
hashFile(d, filePath) ==
    IF filePath \notin DOMAIN d.content \/ d.content[filePath] = Unreadable
    THEN [hash |-> "", err |-> TRUE]
    ELSE [hash |-> Sha256(d.content[filePath]), err |-> FALSE]

\* s starts with prefix
HasPrefix(s, prefix) ==
    Len(s) >= Len(prefix) /\ SubSeq(s, 1, Len(prefix)) = prefix

\* a slip: the path is kept as walked, relative to nothing
RelKeepsPath(dir, path) == path

\* relPath, err := filepath.Rel(dir, path); if err != nil { relPath = path }
Rel(dir, path) ==
    IF path = dir THEN Dot
    ELSE IF HasPrefix(path, dir \o <<Sep>>)
    THEN SubSeq(path, Len(dir) + 2, Len(path))
    ELSE path

\* the FileTask of a walked entry; id is the identity of the task
FileTask(id, dir, entry) ==
    [id |-> id, Path |-> entry.path, Name |-> Base(entry.path),
     RootDir |-> dir, RelPath |-> Rel(dir, entry.path)]

\* the FileInfo both hashing loops build for a task once its hash is known
TaskInfo(task, hash) ==
    FileInfo(<<"scan", task.id>>, task.RelPath, task.Path, task.Name, hash, task.RootDir)

\* int(float64(runtime.NumCPU()) * 0.75), at least 1
NumWorkers(cpu) ==
    IF (cpu * 3) \div 4 < 1 THEN 1 ELSE (cpu * 3) \div 4

minFilesForParallelization == 20

minBatchSize == 10

\* batchSize for n tasks and w workers
BatchSize(n, w) ==
    IF n \div (w * 2) < minBatchSize THEN minBatchSize ELSE n \div (w * 2)

RECURSIVE MakeJobsFullOnly(_, _, _)
\* a slip: the tasks left over after the last full batch get no batch
MakeJobsFullOnly(tasks, batchSize, i) ==
    IF i + batchSize > Len(tasks) THEN <<>>
    ELSE <<SubSeq(tasks, i + 1, i + batchSize)>>
            \o MakeJobsFullOnly(tasks, batchSize, i + batchSize)

RECURSIVE MakeJobs(_, _, _)
\* for i := 0; i < len(tasks); i += batchSize, from 0-based index i on
MakeJobs(tasks, batchSize, i) ==
    IF i >= Len(tasks) THEN <<>>
    ELSE LET end == IF i + batchSize > Len(tasks) THEN Len(tasks) ELSE i + batchSize
         IN  <<SubSeq(tasks, i + 1, end)>> \o MakeJobs(tasks, batchSize, end)

RECURSIVE HashBatchAbort(_, _, _, _)
\* a slip: the first file that cannot be hashed ends the batch
HashBatchAbort(d, job, i, batch) ==
    IF i > Len(job) THEN batch
    ELSE LET h == hashFile(d, job[i].Path)
         IN  IF h.err
             THEN [batch EXCEPT !.Errors = Append(@, job[i].Path)]
             ELSE HashBatchAbort(d, job, i + 1,
                    [batch EXCEPT !.FileInfos = Append(@, TaskInfo(job[i], h.hash))])

RECURSIVE HashBatchReversed(_, _, _, _)
\* a slip: a record is put in front of the records of its batch
HashBatchReversed(d, job, i, batch) ==
    IF i > Len(job) THEN batch
    ELSE LET h == hashFile(d, job[i].Path)
         IN  IF h.err
             THEN HashBatchReversed(d, job, i + 1,
                    [batch EXCEPT !.Errors = Append(@, job[i].Path)])
             ELSE HashBatchReversed(d, job, i + 1,
                    [batch EXCEPT !.FileInfos = <<TaskInfo(job[i], h.hash)>> \o @])

RECURSIVE HashBatch(_, _, _, _)
\* for _, task := range job.Files, from index i on: the FileResult
HashBatch(d, job, i, batch) ==
    IF i > Len(job) THEN batch
    ELSE LET h == hashFile(d, job[i].Path)
         IN  IF h.err
             THEN HashBatch(d, job, i + 1,
                    [batch EXCEPT !.Errors = Append(@, job[i].Path)])
             ELSE HashBatch(d, job, i + 1,
                    [batch EXCEPT !.FileInfos = Append(@, TaskInfo(job[i], h.hash))])

RECURSIVE SequentialLoop(_, _, _, _)
\* for _, task := range tasks of processFilesSequentially, from index i on
SequentialLoop(d, tasks, i, fs) ==
    IF i > Len(tasks) THEN fs
    ELSE LET h == hashFile(d, tasks[i].Path)
         IN  IF h.err THEN SequentialLoop(d, tasks, i + 1, fs)
             ELSE SequentialLoop(d, tasks, i + 1,
                                 AddFileInfo(fs, TaskInfo(tasks[i], h.hash)))

\* the catalog processFilesSequentially(tasks) returns on disk d
processFilesSequentially(d, tasks) == SequentialLoop(d, tasks, 1, EmptyFileSet)

\* a slip: only the first record of a batch result is merged
AddFileInfosFirstOnly(fs, infos, i) ==
    IF i > Len(infos) THEN fs ELSE AddFileInfo(fs, infos[i])

RECURSIVE AddFileInfos(_, _, _)
\* for _, fileInfo := range result.FileInfos, from index i on (next is the
\* catalog after the record of index i is added)
AddFileInfos(fs, infos, i) ==
    IF i > Len(infos) THEN fs
    ELSE CHOOSE out \in {AddFileInfos(next, infos, i + 1) :
                            next \in {AddFileInfo(fs, infos[i])}} : TRUE

\* the warning lines
Warning(kind, path) == [kind |-> kind, path |-> path]

----------------------------------------------------------------------------
(* The scanner: walkDirectoriesWithLimit *)

\* an empty buffered channel of capacity cap
MakeChan(cap) == [q |-> <<>>, closed |-> FALSE, cap |-> cap]

\* FileResult{FileInfos: make(...), Errors: make(...)}
EmptyBatch == [FileInfos |-> <<>>, Errors |-> <<>>]

NoDisk == [exists |-> {}, entries |-> EmptyMap, content |-> EmptyMap]

\* the scanner's variables when no scan runs
ScanIdle ==
    /\ disk = NoDisk
    /\ dirs = <<>>
    /\ limit = -1
    /\ numCPU = 1
    /\ walk = [dir |-> 1, entry |-> 0]
    /\ allTasks = <<>>
    /\ taskCount = 0
    /\ warnings = <<>>
    /\ seqIdx = 0
    /\ jobs = <<>>
    /\ jobChannel = MakeChan(0)
    /\ resultChannel = MakeChan(0)
    /\ feeder = 0
    /\ workers = <<>>
    /\ wg = 0
    /\ fileSet = EmptyFileSet
    /\ returned = "no"

\* the walk of the current root is over (it returned nil or filepath.SkipAll)
NextRoot == [dir |-> walk.dir + 1, entry |-> 0]

\* a slip: the count of tasks starts again with every root that exists
StatRootResetsCount ==
    /\ pc = "stat"
    /\ walk.dir <= Len(dirs)
    /\ IF dirs[walk.dir] \notin disk.exists
       THEN /\ warnings' = Append(warnings, Warning("missing", dirs[walk.dir]))
            /\ walk' = NextRoot
            /\ pc' = "stat"
            /\ UNCHANGED taskCount
       ELSE /\ walk' = [walk EXCEPT !.entry = 1]
            /\ pc' = "walk"
            /\ taskCount' = 0
            /\ UNCHANGED warnings
    /\ UNCHANGED <<disk, dirs, limit, numCPU, allTasks>>
    /\ UNCHANGED <<seqIdx, parVars, fileSet, returned, cmpVars>>

\* a slip: a root that does not exist ends the scan with an error
StatRootAbort ==
    /\ pc = "stat"
    /\ walk.dir <= Len(dirs)
    /\ IF dirs[walk.dir] \notin disk.exists
       THEN /\ warnings' = Append(warnings, Warning("missing", dirs[walk.dir]))
            /\ returned' = "error"
            /\ pc' = "scanned"
            /\ UNCHANGED walk
       ELSE /\ walk' = [walk EXCEPT !.entry = 1]
            /\ pc' = "walk"
            /\ UNCHANGED <<warnings, returned>>
    /\ UNCHANGED <<disk, dirs, limit, numCPU, allTasks, taskCount>>
    /\ UNCHANGED <<seqIdx, parVars, fileSet, cmpVars>>

\* os.Stat(dir): a root that does not exist is skipped with a warning
StatRoot ==
    /\ pc = "stat"
    /\ walk.dir <= Len(dirs)
    /\ IF dirs[walk.dir] \notin disk.exists
       THEN /\ warnings' = Append(warnings, Warning("missing", dirs[walk.dir]))
            /\ walk' = NextRoot
            /\ pc' = "stat"
       ELSE /\ walk' = [walk EXCEPT !.entry = 1]
            /\ pc' = "walk"
            /\ UNCHANGED warnings
    /\ UNCHANGED <<disk, dirs, limit, numCPU, allTasks, taskCount>>
    /\ UNCHANGED <<seqIdx, parVars, fileSet, returned, cmpVars>>

\* the callback of filepath.Walk on the next entry of the current root
WalkEntry ==
    /\ pc = "walk"
    /\ walk.entry <= Len(disk.entries[dirs[walk.dir]])
    /\ LET dir == dirs[walk.dir]
           entry == disk.entries[dir][walk.entry]
       IN  IF entry.err
           THEN /\ warnings' = Append(warnings, Warning("access", entry.path))
                /\ walk' = [walk EXCEPT !.entry = @ + 1]
                /\ UNCHANGED <<pc, allTasks, taskCount>>
           ELSE IF entry.isDir
           THEN /\ walk' = [walk EXCEPT !.entry = @ + 1]
                /\ UNCHANGED <<pc, warnings, allTasks, taskCount>>
           ELSE IF limit > 0 /\ taskCount >= limit
           THEN /\ walk' = NextRoot
                /\ pc' = "stat"
                /\ UNCHANGED <<warnings, allTasks, taskCount>>
           ELSE /\ taskCount' = taskCount + 1
                /\ allTasks' = Append(allTasks, FileTask(Len(allTasks) + 1, dir, entry))
                /\ walk' = [walk EXCEPT !.entry = @ + 1]
                /\ UNCHANGED <<pc, warnings>>
    /\ UNCHANGED <<disk, dirs, limit, numCPU>>
    /\ UNCHANGED <<seqIdx, parVars, fileSet, returned, cmpVars>>

\* filepath.Walk returns nil after the last entry of the current root
WalkReturn ==
    /\ pc = "walk"
    /\ walk.entry > Len(disk.entries[dirs[walk.dir]])
    /\ walk' = NextRoot
    /\ pc' = "stat"
    /\ UNCHANGED <<disk, dirs, limit, numCPU, allTasks, taskCount>>
    /\ UNCHANGED <<warnings, seqIdx, parVars, fileSet, returned, cmpVars>>

\* a slip: minFilesForParallelization tasks are still hashed sequentially
StartSequentialAtThreshold ==
    /\ pc = "stat"
    /\ walk.dir > Len(dirs)
    /\ Len(allTasks) <= minFilesForParallelization
    /\ fileSet' = EmptyFileSet
    /\ seqIdx' = 1
    /\ pc' = "seq"
    /\ UNCHANGED <<walkVars, warnings, parVars, returned, cmpVars>>

\* fewer than minFilesForParallelization tasks: processFilesSequentially(allTasks)
StartSequential ==
    /\ pc = "stat"
    /\ walk.dir > Len(dirs)
    /\ Len(allTasks) < minFilesForParallelization
    /\ fileSet' = EmptyFileSet
    /\ seqIdx' = 1
    /\ pc' = "seq"
    /\ UNCHANGED <<walkVars, warnings, parVars, returned, cmpVars>>

\* the body of the loop of processFilesSequentially
SeqHash ==
    /\ pc = "seq"
    /\ seqIdx <= Len(allTasks)
    /\ LET task == allTasks[seqIdx]
           h == hashFile(disk, task.Path)
       IN  IF h.err
           THEN /\ warnings' = Append(warnings, Warning("hash", task.Path))
                /\ UNCHANGED fileSet
           ELSE /\ fileSet' = AddFileInfo(fileSet, TaskInfo(task, h.hash))
                /\ UNCHANGED warnings
    /\ seqIdx' = seqIdx + 1
    /\ UNCHANGED <<pc, walkVars, parVars, returned, cmpVars>>

\* return fileSet, nil
SeqReturn ==
    /\ pc = "seq"
    /\ seqIdx > Len(allTasks)
    /\ returned' = "ok"
    /\ pc' = "scanned"
    /\ UNCHANGED <<walkVars, warnings, seqIdx, parVars, fileSet, cmpVars>>

----------------------------------------------------------------------------
(* The scanner: processFilesInParallel and hashWorker *)

\* the state of a hashWorker goroutine about to receive from jobs
IdleWorker == [pc |-> "recv", job |-> <<>>, batch |-> EmptyBatch]

\* at least minFilesForParallelization tasks: processFilesInParallel(allTasks)
\* up to the start of the goroutines
StartParallel ==
    /\ pc = "stat"
    /\ walk.dir > Len(dirs)
    /\ Len(allTasks) >= minFilesForParallelization
    /\ LET numWorkers == NumWorkers(numCPU)
           batches == MakeJobs(allTasks, BatchSize(Len(allTasks), numWorkers), 0)
       IN  /\ jobs' = batches
           /\ jobChannel' = MakeChan(Len(batches))
           /\ resultChannel' = MakeChan(Len(batches))
           /\ workers' = [w \in 1..numWorkers |-> IdleWorker]
           /\ wg' = numWorkers
    /\ feeder' = 1
    /\ fileSet' = EmptyFileSet
    /\ pc' = "par"
    /\ UNCHANGED <<walkVars, warnings, seqIdx, returned, cmpVars>>

\* the feeding goroutine: jobChannel <- job
FeederSend ==
    /\ pc = "par"
    /\ feeder <= Len(jobs)
    /\ ~jobChannel.closed
    /\ Len(jobChannel.q) < jobChannel.cap
    /\ jobChannel' = [jobChannel EXCEPT !.q = Append(@, jobs[feeder])]
    /\ feeder' = feeder + 1
    /\ UNCHANGED <<walkVars, warnings, seqIdx, jobs, resultChannel, workers, wg>>
    /\ UNCHANGED <<fileSet, returned, pc, cmpVars>>

\* the feeding goroutine: close(jobChannel)
FeederClose ==
    /\ pc = "par"
    /\ feeder = Len(jobs) + 1
    /\ ~jobChannel.closed
    /\ jobChannel' = [jobChannel EXCEPT !.closed = TRUE]
    /\ UNCHANGED <<walkVars, warnings, seqIdx, jobs, resultChannel, feeder, workers, wg>>
    /\ UNCHANGED <<fileSet, returned, pc, cmpVars>>

\* a slip: the batch a worker receives stays in the channel
WorkerReceivePeek(w) ==
    /\ pc = "par"
    /\ workers[w].pc = "recv"
    /\ Len(jobChannel.q) > 0
    /\ workers' = [workers EXCEPT ![w] =
                    [pc |-> "hash", job |-> Head(jobChannel.q), batch |-> EmptyBatch]]
    /\ UNCHANGED <<walkVars, warnings, seqIdx, jobs, jobChannel, resultChannel, feeder, wg>>
    /\ UNCHANGED <<fileSet, returned, pc, cmpVars>>

\* hashWorker w: for job := range jobs receives a batch
WorkerReceive(w) ==
    /\ pc = "par"
    /\ workers[w].pc = "recv"
    /\ Len(jobChannel.q) > 0
    /\ workers' = [workers EXCEPT ![w] =
                    [pc |-> "hash", job |-> Head(jobChannel.q), batch |-> EmptyBatch]]
    /\ jobChannel' = [jobChannel EXCEPT !.q = Tail(@)]
    /\ UNCHANGED <<walkVars, warnings, seqIdx, jobs, resultChannel, feeder, wg>>
    /\ UNCHANGED <<fileSet, returned, pc, cmpVars>>

\* hashWorker w: hashes every file of its batch
WorkerHash(w) ==
    /\ pc = "par"
    /\ workers[w].pc = "hash"
    /\ workers' = [workers EXCEPT ![w].pc = "send",
                                  ![w].batch = HashBatch(disk, workers[w].job, 1, EmptyBatch)]
    /\ UNCHANGED <<walkVars, warnings, seqIdx, jobs, jobChannel, resultChannel, feeder, wg>>
    /\ UNCHANGED <<fileSet, returned, pc, cmpVars>>

\* a slip: a batch of which no file could be hashed gives no result
WorkerSendRecordsOnly(w) ==
    /\ pc = "par"
    /\ workers[w].pc = "send"
    /\ IF workers[w].batch.FileInfos = <<>>
       THEN /\ workers' = [workers EXCEPT ![w] = IdleWorker]
            /\ UNCHANGED resultChannel
       ELSE /\ ~resultChannel.closed
            /\ Len(resultChannel.q) < resultChannel.cap
            /\ resultChannel' = [resultChannel EXCEPT !.q = Append(@, workers[w].batch)]
            /\ workers' = [workers EXCEPT ![w] = IdleWorker]
    /\ UNCHANGED <<walkVars, warnings, seqIdx, jobs, jobChannel, feeder, wg>>
    /\ UNCHANGED <<fileSet, returned, pc, cmpVars>>

\* hashWorker w: results <- batch (a send on a closed channel panics)
WorkerSend(w) ==
    /\ pc = "par"
    /\ workers[w].pc = "send"
    /\ IF resultChannel.closed
       THEN /\ workers' = [workers EXCEPT ![w].pc = "panic"]
            /\ UNCHANGED resultChannel
       ELSE /\ Len(resultChannel.q) < resultChannel.cap
            /\ resultChannel' = [resultChannel EXCEPT !.q = Append(@, workers[w].batch)]
            /\ workers' = [workers EXCEPT ![w] = IdleWorker]
    /\ UNCHANGED <<walkVars, warnings, seqIdx, jobs, jobChannel, feeder, wg>>
    /\ UNCHANGED <<fileSet, returned, pc, cmpVars>>

\* a slip: a worker returns without wg.Done()
WorkerExitNoDone(w) ==
    /\ pc = "par"
    /\ workers[w].pc = "recv"
    /\ Len(jobChannel.q) = 0
    /\ jobChannel.closed
    /\ workers' = [workers EXCEPT ![w].pc = "exit"]
    /\ UNCHANGED <<walkVars, warnings, seqIdx, jobs, jobChannel, resultChannel, feeder, wg>>
    /\ UNCHANGED <<fileSet, returned, pc, cmpVars>>

\* hashWorker w: the range over jobs ends (closed and drained); defer wg.Done()
WorkerExit(w) ==
    /\ pc = "par"
    /\ workers[w].pc = "recv"
    /\ Len(jobChannel.q) = 0
    /\ jobChannel.closed
    /\ workers' = [workers EXCEPT ![w].pc = "exit"]
    /\ wg' = wg - 1
    /\ UNCHANGED <<walkVars, warnings, seqIdx, jobs, jobChannel, resultChannel, feeder>>
    /\ UNCHANGED <<fileSet, returned, pc, cmpVars>>

\* a slip: the closing goroutine does not wait for the workers
CloseResultsNoWait ==
    /\ pc = "par"
    /\ ~resultChannel.closed
    /\ resultChannel' = [resultChannel EXCEPT !.closed = TRUE]
    /\ UNCHANGED <<walkVars, warnings, seqIdx, jobs, jobChannel, feeder, workers, wg>>
    /\ UNCHANGED <<fileSet, returned, pc, cmpVars>>

\* the closing goroutine: wg.Wait() returns, close(resultChannel)
CloseResults ==
    /\ pc = "par"
    /\ wg = 0
    /\ ~resultChannel.closed
    /\ resultChannel' = [resultChannel EXCEPT !.closed = TRUE]
    /\ UNCHANGED <<walkVars, warnings, seqIdx, jobs, jobChannel, feeder, workers, wg>>
    /\ UNCHANGED <<fileSet, returned, pc, cmpVars>>

RECURSIVE HashWarnings(_, _)
\* the warning lines of the errors of a batch result, from index i on
HashWarnings(errors, i) ==
    IF i > Len(errors) THEN <<>>
    ELSE <<Warning("hash", errors[i])>> \o HashWarnings(errors, i + 1)

\* the body of the loop for result := range resultChannel
CollectResult ==
    /\ pc = "par"
    /\ Len(resultChannel.q) > 0
    /\ LET res == Head(resultChannel.q)
       IN  /\ warnings' = warnings \o HashWarnings(res.Errors, 1)
           /\ fileSet' = AddFileInfos(fileSet, res.FileInfos, 1)
    /\ resultChannel' = [resultChannel EXCEPT !.q = Tail(@)]
    /\ UNCHANGED <<walkVars, seqIdx, jobs, jobChannel, feeder, workers, wg>>
    /\ UNCHANGED <<returned, pc, cmpVars>>

\* the range over resultChannel ends (closed and drained): return fileSet, nil
ParallelReturn ==
    /\ pc = "par"
    /\ Len(resultChannel.q) = 0
    /\ resultChannel.closed
    /\ returned' = "ok"
    /\ pc' = "scanned"
    /\ UNCHANGED <<walkVars, warnings, seqIdx, parVars, fileSet, cmpVars>>

----------------------------------------------------------------------------
(* The catalogs the runs start from *)

\* "y", "d/x", "d/y", "d/s/x": relative paths as filepath.Rel returns them
RelPaths ==
    { <<"y">>, <<"d", "/", "x">>, <<"d", "/", "y">>, <<"d", "/", "s", "/", "x">> }

\* the root directory of directory set setNo
RootOf(setNo) == <<"r", setNo>>

\* the records of directory set setNo, made from a list of <<path, hash>>
Records(setNo, q) ==
    [i \in 1..Len(q) |->
        FileInfo(<<setNo, i>>, q[i][1], Join(<<RootOf(setNo), q[i][1]>>),
                 Base(q[i][1]), q[i][2], RootOf(setNo))]

\* the lists of at most n elements of S
SeqsUpTo(S, n) == UNION {[1..k -> S] : k \in 0..n}

\* the lists of files of one root directory: no path occurs twice
FileLists(P) ==
    {q \in SeqsUpTo(P \X Hashes, MaxFiles) :
        \A i, j \in 1..Len(q) : i # j => q[i][1] # q[j][1]}

\* the catalogs of directory set setNo (one root) with files at the paths of P
Catalogs(setNo, P) == {MakeFileSet(Records(setNo, q)) : q \in FileLists(P)}

RECURSIVE SubLists(_)
\* the sub-lists of a list (order kept)
SubLists(q) ==
    IF Len(q) = 0 THEN {<<>>}
    ELSE LET rest == SubLists(Tail(q))
         IN  rest \cup {<<Head(q)>> \o r : r \in rest}

----------------------------------------------------------------------------
(* main: compareFileSets, then one smart tree for each unique list *)

\* no buildSmartTree call yet
NoArgs == [files |-> <<>>, source |-> EmptyFileSet, other |-> EmptyFileSet]

Init ==
    /\ pc = "start"
    /\ set1 \in Catalogs(1, RelPaths)
    /\ set2 \in Catalogs(2, RelPaths)
    /\ result = EmptyResult
    /\ treeArgs = NoArgs
    /\ tree = NoTree
    /\ pruning = NoPruning
    /\ hashed = <<>>
    /\ ScanIdle

\* result := compareFileSets(set1, set2)
Compare ==
    /\ pc = "start"
    /\ result' = compareFileSets(set1, set2)
    /\ pc' = "compared"
    /\ UNCHANGED <<set1, set2, treeArgs, tree, unitVars, scanVars>>

\* the second tree: buildSmartTree(result.UniqueToSet2, set2, set1), when the
\* section is asked for and the list is not empty
ShowUniqueToSet2 ==
    /\ pc = "compared"
    /\ \E showUniqueToSet2 \in BOOLEAN :
        IF showUniqueToSet2 /\ Len(result.UniqueToSet2) > 0
        THEN /\ treeArgs' = [files |-> result.UniqueToSet2, source |-> set2, other |-> set1]
             /\ tree' = buildSmartTree(result.UniqueToSet2, set2, set1)
        ELSE UNCHANGED <<treeArgs, tree>>
    /\ pc' = "shown2"
    /\ UNCHANGED <<set1, set2, result, unitVars, scanVars>>

\* the third tree: buildSmartTree(result.UniqueToSet1, set1, set2)
ShowUniqueToSet1 ==
    /\ pc = "shown2"
    /\ \E showUniqueToSet1 \in BOOLEAN :
        IF showUniqueToSet1 /\ Len(result.UniqueToSet1) > 0
        THEN /\ treeArgs' = [files |-> result.UniqueToSet1, source |-> set1, other |-> set2]
             /\ tree' = buildSmartTree(result.UniqueToSet1, set1, set2)
        ELSE UNCHANGED <<treeArgs, tree>>
    /\ pc' = "done"
    /\ UNCHANGED <<set1, set2, result, unitVars, scanVars>>

Next == Compare \/ ShowUniqueToSet2 \/ ShowUniqueToSet1

Spec == Init /\ [][Next]_vars

----------------------------------------------------------------------------
(* buildSmartTree called on a sub-list of the source catalog, or on a list  *)
(* of records that are not of the source catalog                           *)

\* the paths of the source catalog: those of RelPaths and "e/y"
TreePaths == RelPaths \cup { <<"e", "/", "y">> }

\* the paths of the catalog a tree is compared against: its paths play no part
OtherPaths == { <<"y">> }

\* lists of one record that belongs to no catalog
ForeignLists == {Records(3, q) : q \in [1..1 -> TreePaths \X Hashes]}

InitTree ==
    /\ pc = "call"
    /\ set1 \in Catalogs(1, TreePaths)
    /\ set2 \in Catalogs(2, OtherPaths)
    /\ result = EmptyResult
    /\ \E files \in SubLists(set1.Files) \cup ForeignLists :
            treeArgs = [files |-> files, source |-> set1, other |-> set2]
    /\ tree = NoTree
    /\ pruning = NoPruning
    /\ hashed = <<>>
    /\ ScanIdle

\* tree := buildSmartTree(files, sourceSet, otherSet)
CallBuildSmartTree ==
    /\ pc = "call"
    /\ tree' = buildSmartTree(treeArgs.files, treeArgs.source, treeArgs.other)
    /\ pc' = "built"
    /\ UNCHANGED <<set1, set2, result, treeArgs, unitVars, scanVars>>

NextTree == CallBuildSmartTree

SpecTree == InitTree /\ [][NextTree]_vars

\* tree := buildTree(files)
CallBuildTree ==
    /\ pc = "call"
    /\ tree' = buildTree(treeArgs.files)
    /\ pc' = "builtSimple"
    /\ UNCHANGED <<set1, set2, result, treeArgs, unitVars, scanVars>>

\* either function is called on the list
NextBuild == CallBuildSmartTree \/ CallBuildTree

SpecBuild == InitTree /\ [][NextBuild]_vars

----------------------------------------------------------------------------
(* removeEmptyDirectories(root) called twice on a tree made by hand, with
   directories that hold nothing, as the tests of the function make them *)

\* the paths of the nodes a tree is made of, parents first: a, a/b, a/b/c,
\* a/f and e, as lists of names
NodePaths ==
    << << <<"a">> >>,
       << <<"a">>, <<"b">> >>,
       << <<"a">>, <<"b">>, <<"c">> >>,
       << <<"a">>, <<"f">> >>,
       << <<"e">> >> >>

\* a/f is a file node (IsDir false), the others are directories
FileNodes == {4}

\* the path above the path of number i (0 is the root)
ParentOf(i) ==
    IF Len(NodePaths[i]) = 1 THEN 0
    ELSE CHOOSE j \in 1..Len(NodePaths) :
            NodePaths[j] = SubSeq(NodePaths[i], 1, Len(NodePaths[i]) - 1)

\* the sets of paths that make a tree: with a path, the path above it, and
\* nothing beneath a file node
NodeSets ==
    {D \in SUBSET (1..Len(NodePaths)) :
        \A i \in D : ParentOf(i) \in (D \cup {0}) \ FileNodes}

\* the address of the node of path number i in the tree of the paths D
AddressOf(D, i) == 1 + Cardinality({j \in D : j <= i})

\* the tree of the paths D in which the nodes of withFile (0 is the root) hold
\* one file and the nodes of entire are marked
HandTree(D, withFile, entire) ==
    LET NodeOf(i) ==
            [Name        |-> IF i = 0 THEN Empty ELSE NodePaths[i][Len(NodePaths[i])],
             IsDir       |-> i \notin FileNodes,
             Files       |-> IF i \in withFile
                             THEN LET relPath == IF i = 0 THEN <<"x">>
                                                 ELSE Join(Append(NodePaths[i], <<"x">>))
                                  IN  <<FileInfo(<<"node", i>>, relPath, relPath, <<"x">>,
                                                 "h1", <<"r">>)>>
                             ELSE <<>>,
             Children    |-> [name \in {NodePaths[j][Len(NodePaths[j])] :
                                            j \in {k \in D : ParentOf(k) = i}} |->
                                AddressOf(D, CHOOSE j \in D :
                                                /\ ParentOf(j) = i
                                                /\ NodePaths[j][Len(NodePaths[j])] = name)],
             Parent      |-> IF i = 0 THEN NoNode ELSE AddressOf(D, ParentOf(i)),
             IsEntireDir |-> i \in entire]
    IN  [heap |-> [a \in 1..(Cardinality(D) + 1) |->
                        IF a = 1 THEN NodeOf(0)
                        ELSE NodeOf(CHOOSE i \in D : AddressOf(D, i) = a)],
         root |-> 1]

\* the trees removeEmptyDirectories is called on
HandTrees ==
    UNION {{HandTree(D, withFile, entire) :
                withFile \in SUBSET ((D \cup {0}) \ FileNodes),
                entire \in SUBSET (D \ FileNodes)} : D \in NodeSets}

InitPrune ==
    /\ pc = "prune"
    /\ tree \in HandTrees
    /\ pruning = [before |-> tree, first |-> NoTree, keep |-> <<>>]
    /\ hashed = <<>>
    /\ set1 = EmptyFileSet
    /\ set2 = EmptyFileSet
    /\ result = EmptyResult
    /\ treeArgs = NoArgs
    /\ ScanIdle

\* removeEmptyDirectories(root), a first and a second time on the same tree
CallRemoveEmptyDirectories ==
    /\ pc \in {"prune", "pruned"}
    /\ LET r == removeEmptyDirectories(tree.heap, tree.root)
           after == [heap |-> r.heap, root |-> tree.root]
       IN  /\ tree' = after
           /\ pruning' = [before |-> pruning.before,
                          first  |-> IF pc = "prune" THEN after ELSE pruning.first,
                          keep   |-> Append(pruning.keep, r.keep)]
    /\ pc' = IF pc = "prune" THEN "pruned" ELSE "prunedTwice"
    /\ UNCHANGED <<set1, set2, result, treeArgs, hashed, scanVars>>

NextPrune == CallRemoveEmptyDirectories

SpecPrune == InitPrune /\ [][NextPrune]_vars

----------------------------------------------------------------------------
(* A scan: walkDirectoriesWithLimit(dirs, limit) on a disk *)

\* most logical cores of the machine
MaxCPU == 3

\* the decimal digit d as a character
Digit(d) == <<"0", "1", "2", "3", "4", "5", "6", "7", "8", "9">>[d + 1]

\* the name of the k-th file of a root: "f01", "f02", ...
FileName(k) == <<"f", Digit(k \div 10), Digit(k % 10)>>

\* the entry filepath.Walk hands to the callback
Entry(path, isDir, err) == [path |-> path, isDir |-> isDir, err |-> err]

RECURSIVE FileEntries(_, _, _, _)
\* the entries of the files k, k+2, ... up to n in directory dir
FileEntries(dir, k, n, acc) ==
    IF k > n THEN acc
    ELSE FileEntries(dir, k + 2, n, Append(acc, Entry(Join(<<dir, FileName(k)>>), FALSE, FALSE)))

\* root with n files, in the lexical order of filepath.Walk: the root itself,
\* its subdirectory d with the files of even number, an entry e that cannot be
\* accessed when broken, then the files of odd number
RootEntries(root, n, broken) ==
    <<Entry(root, TRUE, FALSE)>>
        \o (IF n >= 2
            THEN FileEntries(Join(<<root, <<"d">>>>), 2, n,
                             <<Entry(Join(<<root, <<"d">>>>), TRUE, FALSE)>>)
            ELSE <<>>)
        \o (IF broken THEN <<Entry(Join(<<root, <<"e">>>>), FALSE, TRUE)>> ELSE <<>>)
        \o FileEntries(root, 1, n, <<>>)

\* the paths of the files among entries
FilePaths(entries) ==
    {entries[i].path : i \in {j \in 1..Len(entries) : ~entries[j].isDir /\ ~entries[j].err}}

\* the numbers of files a root may hold
FileCounts == {0, 1, 3, 19, 20, 22}

RootA == <<"a">>

RootB == <<"b">>

\* a root that does not exist
RootM == <<"m">>

\* the lists of roots a scan is called with
DirLists ==
    {<<>>, <<RootA>>, <<RootM>>, <<RootA, RootB>>, <<RootM, RootA>>,
     <<RootA, RootM, RootB>>, <<RootA, RootA>>, <<RootB, RootM>>}

\* the files that may be unreadable when they are hashed
Fragile == {Join(<<RootA, FileName(1)>>), Join(<<RootA, <<"d">>, FileName(2)>>)}

\* the disk with nA files under root a and one file under root b
Disk(nA, broken, unreadable) ==
    LET ea == RootEntries(RootA, nA, broken)
        eb == RootEntries(RootB, 1, FALSE)
        paths == FilePaths(ea) \cup FilePaths(eb)
    IN  [exists  |-> {RootA, RootB},
         entries |-> (RootA :> ea) @@ (RootB :> eb),
         content |-> [p \in paths |->
                        IF p \in unreadable THEN Unreadable
                        ELSE IF p[Len(p)] \in {"1", "2", "3"} THEN "c1" ELSE "c2"]]

InitScan ==
    /\ pc = "stat"
    /\ \E nA \in FileCounts, broken \in BOOLEAN, unreadable \in SUBSET Fragile :
            disk = Disk(nA, broken, unreadable)
    /\ dirs \in DirLists
    /\ limit \in {-1, 0, 2, 21}
    /\ numCPU \in 1..MaxCPU
    /\ walk = [dir |-> 1, entry |-> 0]
    /\ allTasks = <<>>
    /\ taskCount = 0
    /\ warnings = <<>>
    /\ seqIdx = 0
    /\ jobs = <<>>
    /\ jobChannel = MakeChan(0)
    /\ resultChannel = MakeChan(0)
    /\ feeder = 0
    /\ workers = <<>>
    /\ wg = 0
    /\ fileSet = EmptyFileSet
    /\ returned = "no"
    /\ set1 = EmptyFileSet
    /\ set2 = EmptyFileSet
    /\ result = EmptyResult
    /\ treeArgs = NoArgs
    /\ tree = NoTree
    /\ pruning = NoPruning
    /\ hashed = <<>>

NextScan ==
    \/ StatRoot
    \/ WalkEntry
    \/ WalkReturn
    \/ StartSequential
    \/ SeqHash
    \/ SeqReturn
    \/ StartParallel
    \/ FeederSend
    \/ FeederClose
    \/ \E w \in DOMAIN workers : WorkerReceive(w)
    \/ \E w \in DOMAIN workers : WorkerHash(w)
    \/ \E w \in DOMAIN workers : WorkerSend(w)
    \/ \E w \in DOMAIN workers : WorkerExit(w)
    \/ CloseResults
    \/ CollectResult
    \/ ParallelReturn

SpecScan == InitScan /\ [][NextScan]_vars

----------------------------------------------------------------------------
(* processFilesSequentially(tasks) and processFilesInParallel(tasks) called
   on a task list, as the tests of the two functions call them *)

\* the numbers of tasks the functions are called with
TaskCounts == {0, 1, 2, 11, 21, 23}

\* the task of the k-th file of the directory a
TestTask(k) ==
    FileTask(k, RootA, Entry(Join(<<RootA, FileName(k)>>), FALSE, FALSE))

TestTasks(n) == [k \in 1..n |-> TestTask(k)]

\* the disk with the files of n tasks, some unreadable and some gone by the
\* time they are hashed
TestDisk(n, unreadable, gone) ==
    [exists  |-> {RootA},
     entries |-> (RootA :> <<>>),
     content |-> [p \in {TestTask(k).Path : k \in 1..n} \ gone |->
                    IF p \in unreadable THEN Unreadable
                    ELSE IF p[Len(p)] \in {"1", "2", "3"} THEN "c1" ELSE "c2"]]

InitPar ==
    /\ pc \in {"callseq", "callpar"}
    /\ \E n \in TaskCounts :
        /\ allTasks = TestTasks(n)
        /\ \E unreadable \in SUBSET {TestTask(1).Path, TestTask(11).Path},
              gone \in SUBSET {TestTask(2).Path} :
                disk = TestDisk(n, unreadable, gone)
    /\ dirs = <<>>
    /\ limit = -1
    /\ numCPU \in 1..MaxCPU
    /\ walk = [dir |-> 1, entry |-> 0]
    /\ taskCount = 0
    /\ warnings = <<>>
    /\ seqIdx = 0
    /\ jobs = <<>>
    /\ jobChannel = MakeChan(0)
    /\ resultChannel = MakeChan(0)
    /\ feeder = 0
    /\ workers = <<>>
    /\ wg = 0
    /\ fileSet = EmptyFileSet
    /\ returned = "no"
    /\ set1 = EmptyFileSet
    /\ set2 = EmptyFileSet
    /\ result = EmptyResult
    /\ treeArgs = NoArgs
    /\ tree = NoTree
    /\ pruning = NoPruning
    /\ hashed = <<>>

\* processFilesSequentially(tasks): the catalog is made
CallSequentially ==
    /\ pc = "callseq"
    /\ fileSet' = EmptyFileSet
    /\ seqIdx' = 1
    /\ pc' = "seq"
    /\ UNCHANGED <<walkVars, warnings, parVars, returned, cmpVars>>

\* processFilesInParallel(tasks) up to the start of the goroutines
CallInParallel ==
    /\ pc = "callpar"
    /\ LET numWorkers == NumWorkers(numCPU)
           batches == MakeJobs(allTasks, BatchSize(Len(allTasks), numWorkers), 0)
       IN  /\ jobs' = batches
           /\ jobChannel' = MakeChan(Len(batches))
           /\ resultChannel' = MakeChan(Len(batches))
           /\ workers' = [w \in 1..numWorkers |-> IdleWorker]
           /\ wg' = numWorkers
    /\ feeder' = 1
    /\ fileSet' = EmptyFileSet
    /\ pc' = "par"
    /\ UNCHANGED <<walkVars, warnings, seqIdx, returned, cmpVars>>

NextPar ==
    \/ CallSequentially
    \/ SeqHash
    \/ SeqReturn
    \/ CallInParallel
    \/ FeederSend
    \/ FeederClose
    \/ \E w \in DOMAIN workers : WorkerReceive(w)
    \/ \E w \in DOMAIN workers : WorkerHash(w)
    \/ \E w \in DOMAIN workers : WorkerSend(w)
    \/ \E w \in DOMAIN workers : WorkerExit(w)
    \/ CloseResults
    \/ CollectResult
    \/ ParallelReturn

SpecPar == InitPar /\ [][NextPar]_vars

\* the steps of the calling goroutine
CallerStep ==
    \/ CallSequentially
    \/ SeqHash
    \/ SeqReturn
    \/ CallInParallel
    \/ CollectResult
    \/ ParallelReturn

\* the steps of the goroutine that sends the jobs
FeederStep == FeederSend \/ FeederClose

\* the steps of the goroutine hashWorker number w
WorkerStep(w) ==
    /\ w \in DOMAIN workers
    /\ \/ WorkerReceive(w)
       \/ WorkerHash(w)
       \/ WorkerSend(w)
       \/ WorkerExit(w)

\* the Go scheduler runs every goroutine that can take a step
FairSpecPar ==
    /\ SpecPar
    /\ WF_vars(CallerStep)
    /\ WF_vars(FeederStep)
    /\ \A w \in 1..NumWorkers(MaxCPU) : WF_vars(WorkerStep(w))
    /\ WF_vars(CloseResults)

----------------------------------------------------------------------------
(* hashFile(filePath) called on the files of a disk *)

\* most calls of hashFile in one run
MaxCalls == 2

\* the paths hashFile is called with: a/f01, a/f02 and b/f01
HashPaths ==
    {Join(<<RootA, FileName(1)>>), Join(<<RootA, FileName(2)>>),
     Join(<<RootB, FileName(1)>>)}

\* what a path may hold: no bytes, one of two contents, bytes that cannot be
\* read; or there is no file at the path
Contents == {"", "c1", "c2", Unreadable, "none"}

\* the disk with the files of HashPaths as holds tells
HashDisk(holds) ==
    [exists  |-> {RootA, RootB},
     entries |-> (RootA :> <<>>) @@ (RootB :> <<>>),
     content |-> [p \in {q \in HashPaths : holds[q] # "none"} |-> holds[p]]]

InitHash ==
    /\ pc = "hash"
    /\ \E holds \in [HashPaths -> Contents] : disk = HashDisk(holds)
    /\ hashed = <<>>
    /\ pruning = NoPruning
    /\ dirs = <<>>
    /\ limit = -1
    /\ numCPU = 1
    /\ walk = [dir |-> 1, entry |-> 0]
    /\ allTasks = <<>>
    /\ taskCount = 0
    /\ warnings = <<>>
    /\ seqIdx = 0
    /\ jobs = <<>>
    /\ jobChannel = MakeChan(0)
    /\ resultChannel = MakeChan(0)
    /\ feeder = 0
    /\ workers = <<>>
    /\ wg = 0
    /\ fileSet = EmptyFileSet
    /\ returned = "no"
    /\ set1 = EmptyFileSet
    /\ set2 = EmptyFileSet
    /\ result = EmptyResult
    /\ treeArgs = NoArgs
    /\ tree = NoTree

\* hash, err := hashFile(filePath)
CallHashFile ==
    /\ pc = "hash"
    /\ Len(hashed) < MaxCalls
    /\ \E filePath \in HashPaths :
            hashed' = Append(hashed, [path |-> filePath, ret |-> hashFile(disk, filePath)])
    /\ UNCHANGED <<pc, set1, set2, result, treeArgs, tree, pruning, scanVars>>

NextHash == CallHashFile

SpecHash == InitHash /\ [][NextHash]_vars

----------------------------------------------------------------------------
(* Vocabulary of the properties *)

\* the records of a list
Recs(q) == {q[i] : i \in 1..Len(q)}

\* how often r occurs in the list q
Occurrences(q, r) == Cardinality({i \in 1..Len(q) : q[i] = r})

\* compareFileSets has returned
Compared == pc \in {"compared", "shown2", "done"}

\* buildSmartTree has returned
TreeBuilt == tree # NoTree

RECURSIVE Reachable(_, _)
\* the nodes of the tree under node, node included
Reachable(heap, node) ==
    {node} \cup UNION {Reachable(heap, c) : c \in ChildNodes(heap, node)}

\* the nodes of the returned tree that are marked entire
EntireNodes ==
    IF TreeBuilt THEN {n \in Reachable(tree.heap, tree.root) : tree.heap[n].IsEntireDir}
    ELSE {}

\* path p lies under directory d, at any depth
IsUnder(p, d) ==
    /\ Len(p) > Len(d) + 1
    /\ SubSeq(p, 1, Len(d)) = d
    /\ p[Len(d) + 1] = Sep

\* the records of catalog fs under directory d, at any depth
RecordsUnder(fs, d) == {r \in Recs(fs.Files) : IsUnder(r.RelativePath, d)}

\* the records of the tree in node n and in all nodes beneath it
FilesBeneath(n) == UNION {Recs(tree.heap[m].Files) : m \in Reachable(tree.heap, n)}

\* r has a counterpart by content in catalog fs
Matched(r, fs) == r.Hash \in DOMAIN fs.HashMap

\* some record of catalog fs has the name of r
NameKnown(r, fs) == r.Name \in DOMAIN fs.NameMap

ResultLists ==
    Recs(result.SameNameDifferentHash) \cup Recs(result.UniqueToSet2)
        \cup Recs(result.UniqueToSet1)

----------------------------------------------------------------------------
(* Properties of compareFileSets *)

\* C1: every record of set2 is in at most one of SameNameDifferentHash and
\* UniqueToSet2, at most once (and is otherwise skipped as identical); the two
\* lists hold records of set2 only.
C1_ClassifiedOnce ==
    Compared =>
        /\ \A r \in Recs(set2.Files) :
                Occurrences(result.SameNameDifferentHash, r)
                    + Occurrences(result.UniqueToSet2, r) <= 1
        /\ Recs(result.SameNameDifferentHash) \cup Recs(result.UniqueToSet2)
                \subseteq Recs(set2.Files)

\* a comparison that reports one record of set2 as modified, one as unique and
\* skips a third
C1_Witness ==
    /\ Compared
    /\ Len(result.SameNameDifferentHash) > 0
    /\ Len(result.UniqueToSet2) > 0
    /\ \E r \in Recs(set2.Files) : r \notin ResultLists

\* C2: a record of either catalog whose fingerprint is a key of the other
\* catalog's fingerprint index is in none of the three lists, whatever its name;
\* a file renamed without a change of content gives three empty lists.
C2_FingerprintFirst ==
    Compared =>
        /\ \A r \in Recs(set2.Files) : Matched(r, set1) => r \notin ResultLists
        /\ \A r \in Recs(set1.Files) : Matched(r, set2) => r \notin ResultLists
        /\ (/\ Len(set1.Files) = 1
            /\ Len(set2.Files) = 1
            /\ set1.Files[1].Hash = set2.Files[1].Hash
            /\ set1.Files[1].Name # set2.Files[1].Name)
                => ResultLists = {}

\* a record of set2 whose content is in set1 under another name, while set1
\* holds other content under the name of the record
C2_Witness ==
    /\ Compared
    /\ \E r \in Recs(set2.Files) :
        /\ Matched(r, set1)
        /\ \E a \in Recs(set1.Files) : a.Name = r.Name /\ a.Hash # r.Hash
        /\ \E a \in Recs(set1.Files) : a.Name # r.Name /\ a.Hash = r.Hash

\* C3: a record of set2 is modified exactly when its fingerprint is no key of
\* set1's fingerprint index and its name is a key of set1's name index; then
\* NameMappings maps its name to all the records of set1 with that name, in the
\* order of set1; NameMappings has no other key.
C3_Modified ==
    Compared =>
        /\ \A r \in Recs(set2.Files) :
                r \in Recs(result.SameNameDifferentHash)
                    <=> (~Matched(r, set1) /\ NameKnown(r, set1))
        /\ \A r \in Recs(result.SameNameDifferentHash) :
                /\ r.Name \in DOMAIN result.NameMappings
                /\ result.NameMappings[r.Name]
                        = SelectSeq(set1.Files, LAMBDA a : a.Name = r.Name)
                /\ Len(result.NameMappings[r.Name]) > 0
        /\ DOMAIN result.NameMappings
                = {r.Name : r \in Recs(result.SameNameDifferentHash)}

\* a modified record whose name two records of set1 carry
C3_Witness ==
    /\ Compared
    /\ \E r \in Recs(result.SameNameDifferentHash) :
            Len(result.NameMappings[r.Name]) = 2

\* C4: a record is unique to its set exactly when neither its fingerprint nor
\* its name is a key of the other catalog's indexes; two empty catalogs give
\* four empty results.
C4_Unique ==
    Compared =>
        /\ \A r \in Recs(set2.Files) :
                r \in Recs(result.UniqueToSet2)
                    <=> (~Matched(r, set1) /\ ~NameKnown(r, set1))
        /\ \A r \in Recs(set1.Files) :
                r \in Recs(result.UniqueToSet1)
                    <=> (~Matched(r, set2) /\ ~NameKnown(r, set2))
        /\ Recs(result.UniqueToSet2) \subseteq Recs(set2.Files)
        /\ Recs(result.UniqueToSet1) \subseteq Recs(set1.Files)
        /\ (Len(set1.Files) = 0 /\ Len(set2.Files) = 0) => result = EmptyResult

\* both unique lists are filled, by catalogs of two records or more
C4_Witness ==
    /\ Compared
    /\ Len(result.UniqueToSet2) > 0
    /\ Len(result.UniqueToSet1) > 0
    /\ Len(set1.Files) > 1
    /\ Len(set2.Files) > 1

\* C5: every record of set1 that the set1 pass leaves out because of its name
\* alone (fingerprint unknown to set2, name known to set2) is captured from
\* set2's side: a record of set2 with its name is modified, and NameMappings
\* of that name holds the record.
C5_CapturedFromSet2 ==
    Compared =>
        \A a \in Recs(set1.Files) :
            (~Matched(a, set2) /\ NameKnown(a, set2)) =>
                /\ \E r \in Recs(result.SameNameDifferentHash) : r.Name = a.Name
                /\ a.Name \in DOMAIN result.NameMappings
                /\ a \in Recs(result.NameMappings[a.Name])

----------------------------------------------------------------------------
(* Properties of buildSmartTree *)

\* the directory set of a catalog: the parent directory of every record and
\* all the ancestors of that directory
DirectorySet(fs) ==
    UNION {{SubSeq(r.RelativePath, 1, i - 1) :
                i \in {j \in 1..Len(r.RelativePath) : r.RelativePath[j] = Sep}} :
            r \in Recs(fs.Files)}

\* the records of catalog fs whose immediate parent directory is d
DirectRecords(fs, d) == {r \in Recs(fs.Files) : Dir(r.RelativePath) = d}

\* C6: under a directory marked entire, at any depth, the source catalog has
\* no record whose fingerprint is a key of the other catalog's fingerprint index.
C6_NothingMatchedBeneath ==
    \A n \in EntireNodes :
        \A r \in RecordsUnder(treeArgs.source, DirPath(tree.heap, n)) :
            ~Matched(r, treeArgs.other)

\* C7: a directory node other than the root is marked entire exactly when its
\* path is in the directory set of the source catalog, no record of the source
\* catalog directly in it is matched in the other catalog, all its child nodes
\* are marked entire, and it has a direct source record or a child node; the
\* root is not marked.
C7_MarkedExactlyWhen ==
    TreeBuilt =>
        /\ ~tree.heap[tree.root].IsEntireDir
        /\ \A n \in Reachable(tree.heap, tree.root) \ {tree.root} :
            LET d == DirPath(tree.heap, n)
                direct == DirectRecords(treeArgs.source, d)
                kids == ChildNodes(tree.heap, n)
            IN  tree.heap[n].IsEntireDir <=>
                    /\ d \in DirectorySet(treeArgs.source)
                    /\ \A r \in direct : ~Matched(r, treeArgs.other)
                    /\ \A c \in kids : tree.heap[c].IsEntireDir
                    /\ (direct # {} \/ kids # {})

\* a tree with a marked node beneath a node that is left unmarked because
\* of another child alone: no record directly in it is matched
C7_Witness ==
    /\ TreeBuilt
    /\ \E n \in Reachable(tree.heap, tree.root) \ {tree.root} :
        /\ ~tree.heap[n].IsEntireDir
        /\ \A r \in DirectRecords(treeArgs.source, DirPath(tree.heap, n)) :
                ~Matched(r, treeArgs.other)
        /\ \E c \in ChildNodes(tree.heap, n) : ~tree.heap[c].IsEntireDir
    /\ EntireNodes # {}

\* C8: when the list given to buildSmartTree is a sub-list of the source
\* catalog, no file of the tree in or beneath a node marked entire has a
\* fingerprint that is a key of the other catalog's fingerprint index.
C8_CollapseSound ==
    (TreeBuilt /\ Recs(treeArgs.files) \subseteq Recs(treeArgs.source.Files)) =>
        \A n \in EntireNodes :
            \A f \in FilesBeneath(n) : ~Matched(f, treeArgs.other)

\* a marked node with a file of its own and a file in a node beneath it, next
\* to a node left unmarked, the other catalog not being empty
C8_Witness ==
    /\ TreeBuilt
    /\ Recs(treeArgs.files) \subseteq Recs(treeArgs.source.Files)
    /\ treeArgs.other.Files # <<>>
    /\ \E n \in EntireNodes :
        /\ Len(tree.heap[n].Files) > 0
        /\ \E c \in ChildNodes(tree.heap, n) : Len(tree.heap[c].Files) > 0

\* C9: every record of the source catalog under a directory marked entire is a
\* record of the unique list the tree was built from.
C9_OnlyUniqueBeneath ==
    \A n \in EntireNodes :
        RecordsUnder(treeArgs.source, DirPath(tree.heap, n)) \subseteq Recs(treeArgs.files)

----------------------------------------------------------------------------
(* Properties of the scanner *)

\* the scan has returned its catalog with a nil error
ScanReturned == returned = "ok"

\* the regular files found under the i-th root of dirs (none if it is missing)
Found(i) ==
    IF dirs[i] \in disk.exists THEN FilePaths(disk.entries[dirs[i]]) ELSE {}

RECURSIVE FoundCount(_)
\* the number of regular files found under the first i roots of dirs
FoundCount(i) ==
    IF i = 0 THEN 0 ELSE FoundCount(i - 1) + Cardinality(Found(i))

\* every file found can be hashed
AllHashable ==
    \A i \in 1..Len(dirs) : \A p \in Found(i) : disk.content[p] # Unreadable

\* C10: without a cap and with every file hashable, the catalog returned holds
\* one record for every regular file found under every existing root of dirs
\* (as many as the root is listed), and no other record; a record carries its
\* root, the path relative to that root, the basename and the fingerprint of
\* the content.
C10_OneRecordPerFile ==
    (ScanReturned /\ limit <= 0 /\ AllHashable) =>
        /\ Len(fileSet.Files) = FoundCount(Len(dirs))
        /\ \A i \in 1..Len(dirs) : \A p \in Found(i) :
                Cardinality({k \in 1..Len(fileSet.Files) :
                                /\ fileSet.Files[k].AbsolutePath = p
                                /\ fileSet.Files[k].RootDir = dirs[i]})
                    = Cardinality({j \in 1..Len(dirs) : dirs[j] = dirs[i]})
        /\ \A r \in Recs(fileSet.Files) :
                /\ \E i \in 1..Len(dirs) : r.RootDir = dirs[i] /\ r.AbsolutePath \in Found(i)
                /\ r.AbsolutePath = r.RootDir \o <<Sep>> \o r.RelativePath
                /\ r.Name = Base(r.RelativePath)
                /\ r.Hash = Sha256(disk.content[r.AbsolutePath])

\* a scan without cap of a missing root and two roots with files in
\* subdirectories, hashed by the worker pool
C10_Witness ==
    /\ ScanReturned
    /\ limit <= 0
    /\ AllHashable
    /\ dirs = <<RootA, RootM, RootB>>
    /\ Len(jobs) > 1
    /\ Len(fileSet.Files) > minFilesForParallelization


RECURSIVE IndexSize(_, _)
\* the total length of the lists of index m over the keys ks
IndexSize(m, ks) ==
    IF ks = {} THEN 0
    ELSE LET k == CHOOSE x \in ks : TRUE
         IN  Len(m[k]) + IndexSize(m, ks \ {k})

\* index m of catalog fs, keyed by Key(record), agrees with fs.Files
IndexAgrees(fs, m, Key(_)) ==
    /\ \A r \in Recs(fs.Files) :
            /\ Key(r) \in DOMAIN m
            /\ Occurrences(m[Key(r)], r) = 1
    /\ \A k \in DOMAIN m : \A e \in Recs(m[k]) : e \in Recs(fs.Files) /\ Key(e) = k
    /\ IndexSize(m, DOMAIN m) = Len(fs.Files)

\* C11: in the catalog a scan returns, on the sequential and on the parallel
\* path, every record of Files is exactly once in the list of NameMap under its
\* name and exactly once in the list of HashMap under its fingerprint, every
\* entry of an index is a record of Files under its own key, and the lists of
\* each index have len(Files) entries in total; records that share a name or a
\* fingerprint are all kept.
C11_IndexesAgree ==
    ScanReturned =>
        /\ IndexAgrees(fileSet, fileSet.NameMap, LAMBDA r : r.Name)
        /\ IndexAgrees(fileSet, fileSet.HashMap, LAMBDA r : r.Hash)

\* a catalog returned by the worker pool in which two records share a name
\* and two records of different names share a fingerprint
C11_Witness ==
    /\ ScanReturned
    /\ Len(jobs) > 1
    /\ \E k \in DOMAIN fileSet.NameMap : Len(fileSet.NameMap[k]) > 1
    /\ \E k \in DOMAIN fileSet.HashMap :
            \E a, b \in Recs(fileSet.HashMap[k]) : a.Name # b.Name

\* the tasks of allTasks whose hash fails
FailingTasks == {i \in 1..Len(allTasks) : hashFile(disk, allTasks[i].Path).err}

\* the record a task contributes when its hash succeeds
RecordOf(i) == TaskInfo(allTasks[i], hashFile(disk, allTasks[i].Path).hash)

\* the scan is over, whatever it returned
ScanOver == pc = "scanned"

\* C12: when a scan is over it has returned a catalog with a nil error; a task
\* whose hash fails has no record in the catalog and one warning (as many
\* warnings for a path as failing tasks of that path), and every other task,
\* of the same batch or another, has its record in the catalog exactly once.
C12_FailureExcludesOneFile ==
    ScanOver =>
        /\ ScanReturned
        /\ \A i \in 1..Len(allTasks) :
            IF i \in FailingTasks
            THEN /\ \A r \in Recs(fileSet.Files) : r.ptr # <<"scan", allTasks[i].id>>
                 /\ Occurrences(warnings, Warning("hash", allTasks[i].Path))
                        = Cardinality({j \in FailingTasks :
                                            allTasks[j].Path = allTasks[i].Path})
            ELSE /\ Occurrences(fileSet.Files, RecordOf(i)) = 1
                 /\ Occurrences(warnings, Warning("hash", allTasks[i].Path)) = 0

\* a scan by the worker pool in which two files of different batches could
\* not be hashed, each in a batch with files that could
C12_Witness ==
    /\ ScanReturned
    /\ Len(jobs) > 1
    /\ Cardinality(FailingTasks) = 2
    /\ \E b1, b2 \in 1..Len(jobs) :
        /\ b1 # b2
        /\ \A b \in {b1, b2} :
            /\ \E k \in 1..Len(jobs[b]) : hashFile(disk, jobs[b][k].Path).err
            /\ \E k \in 1..Len(jobs[b]) : ~hashFile(disk, jobs[b][k].Path).err
    /\ Len(fileSet.Files) = Len(allTasks) - 2

\* the roots of dirs that do not exist
MissingRoots == {i \in 1..Len(dirs) : dirs[i] \notin disk.exists}

\* C13: a root that does not exist, first, in the middle or last in dirs, is
\* no error: the scan returns a catalog with a nil error, there is one warning
\* for each missing root of the list and no record of such a root, and every
\* file found under the other roots has its task, up to the cap if there is
\* one.
C13_MissingRootSkipped ==
    ScanOver =>
        /\ ScanReturned
        /\ \A i \in MissingRoots :
            /\ Occurrences(warnings, Warning("missing", dirs[i]))
                    = Cardinality({j \in MissingRoots : dirs[j] = dirs[i]})
            /\ \A r \in Recs(fileSet.Files) : r.RootDir # dirs[i]
            /\ \A k \in 1..Len(allTasks) : allTasks[k].RootDir # dirs[i]
        /\ limit <= 0 =>
            \A i \in 1..Len(dirs) : \A p \in Found(i) :
                \E k \in 1..Len(allTasks) :
                    allTasks[k].Path = p /\ allTasks[k].RootDir = dirs[i]

\* a scan that met a missing root after another root and returned files of a
\* root listed after the missing one
C13_Witness ==
    /\ ScanReturned
    /\ MissingRoots # {}
    /\ 1 \notin MissingRoots
    /\ \E i \in MissingRoots : \E r \in Recs(fileSet.Files) :
            \E j \in (i + 1)..Len(dirs) : r.RootDir = dirs[j]

\* the smaller of two numbers
Min(a, b) == IF a < b THEN a ELSE b

\* C14: with a cap limit > 0 the walk never enumerates more than limit files
\* over all the roots together, and when every file is hashable the catalog
\* returned has min(limit, N) records, N being the number of regular files
\* under all the roots; with a cap of 0 or less all N files are enumerated and,
\* when hashable, returned.
C14_CapOverAllRoots ==
    /\ limit > 0 => Len(allTasks) <= limit /\ taskCount <= limit
    /\ ScanOver =>
        LET N == FoundCount(Len(dirs))
        IN  /\ limit > 0 =>
                /\ Len(allTasks) = Min(limit, N)
                /\ AllHashable => Len(fileSet.Files) = Min(limit, N)
            /\ limit <= 0 =>
                /\ Len(allTasks) = N
                /\ AllHashable => Len(fileSet.Files) = N

\* a scan with a cap that was reached in the first of two roots with files:
\* the second root contributes nothing
C14_Witness ==
    /\ ScanReturned
    /\ limit > 0
    /\ AllHashable
    /\ Len(dirs) = 2
    /\ Cardinality(Found(1)) > limit
    /\ Cardinality(Found(2)) > 0
    /\ Len(fileSet.Files) = limit

\* the hashing runs or has run in processFilesSequentially
OnSequentialPath == pc = "seq" \/ (ScanOver /\ seqIdx > 0)

\* the hashing runs or has run in processFilesInParallel
OnParallelPath == pc = "par" \/ (ScanOver /\ seqIdx = 0)

C15_WitnessSequential ==
    /\ ScanReturned
    /\ Len(allTasks) = 19
    /\ OnSequentialPath
    /\ Len(fileSet.Files) = 19

----------------------------------------------------------------------------
(* Properties of the two hashing strategies *)

\* what processFilesSequentially returns for the task list on the disk
SequentialCatalog == processFilesSequentially(disk, allTasks)

\* C16: the catalog processFilesInParallel returns for a task list has, under
\* every interleaving of the workers, as many records as the catalog
\* processFilesSequentially returns for the same list on the same disk, the
\* same set of records, and the same keys in the name index and in the
\* fingerprint index; the sequential loop returns the records in the order of
\* the tasks.
C16_SameCatalog ==
    ScanOver =>
        /\ Len(fileSet.Files) = Len(SequentialCatalog.Files)
        /\ Recs(fileSet.Files) = Recs(SequentialCatalog.Files)
        /\ DOMAIN fileSet.NameMap = DOMAIN SequentialCatalog.NameMap
        /\ DOMAIN fileSet.HashMap = DOMAIN SequentialCatalog.HashMap
        /\ OnSequentialPath => fileSet = SequentialCatalog

\* the worker pool returned the records of three batches, one file of which
\* could not be hashed, in another order than the sequential loop does
C16_Witness ==
    /\ ScanReturned
    /\ OnParallelPath
    /\ Len(jobs) = 3
    /\ FailingTasks # {}
    /\ fileSet.Files # SequentialCatalog.Files
    /\ Len(fileSet.Files) > minBatchSize

\* the workers that have not returned from hashWorker
RunningWorkers == {w \in DOMAIN workers : workers[w].pc # "exit"}

\* the warnings of files that could not be hashed
HashWarningCount == Cardinality({i \in 1..Len(warnings) : warnings[i].kind = "hash"})

\* C17: in processFilesInParallel the wait group counts the workers that have
\* not finished; the results channel is closed only when that count is zero and
\* every worker has returned, so that no worker sends on the closed channel;
\* and the function returns only when the results channel is closed and empty
\* and the result of every batch has been merged: each task has then given a
\* record or a warning.
C17_CloseAfterWorkers ==
    /\ wg = Cardinality(RunningWorkers)
    /\ resultChannel.closed => (wg = 0 /\ RunningWorkers = {})
    /\ \A w \in DOMAIN workers : workers[w].pc # "panic"
    /\ (ScanOver /\ OnParallelPath) =>
        /\ resultChannel.closed
        /\ resultChannel.q = <<>>
        /\ jobChannel.closed
        /\ jobChannel.q = <<>>
        /\ feeder = Len(jobs) + 1
        /\ Len(fileSet.Files) + HashWarningCount = Len(allTasks)

\* the results channel is closed, after two workers have finished, while
\* batch results still wait in it to be merged
C17_Witness ==
    /\ pc = "par"
    /\ resultChannel.closed
    /\ Len(resultChannel.q) > 1
    /\ Len(workers) > 1

\* no batch is longer than the task list
MaxBatch == Len(allTasks)

RECURSIVE Flatten(_)
\* the elements of the lists of a list of lists, in one list
Flatten(qq) == IF Len(qq) = 0 THEN <<>> ELSE Head(qq) \o Flatten(Tail(qq))

\* the tasks that wait to be hashed: in the batches not yet sent, in the job
\* channel, and in the hands of the workers
TasksWaiting ==
    Flatten(SubSeq(jobs, feeder, Len(jobs)))
        \o Flatten([k \in 1..Len(jobChannel.q) |-> jobChannel.q[k]])
        \o Flatten([w \in DOMAIN workers |->
                        IF workers[w].pc = "hash" THEN workers[w].job ELSE <<>>])

\* the batch results not yet merged: in the hands of the workers and in the
\* results channel
ResultsWaiting ==
    [w \in DOMAIN workers |->
        IF workers[w].pc = "send" THEN workers[w].batch ELSE EmptyBatch]
        \o resultChannel.q

\* how many times the task of path p is present in the worker pool and in
\* its output
Presence(p) ==
    Cardinality({k \in 1..Len(TasksWaiting) : TasksWaiting[k].Path = p})
    + Cardinality({k \in 1..Len(fileSet.Files) : fileSet.Files[k].AbsolutePath = p})
    + Occurrences(warnings, Warning("hash", p))
    + Cardinality({bk \in {<<b, k>> : b \in 1..Len(ResultsWaiting), k \in 1..MaxBatch} :
                    /\ bk[2] <= Len(ResultsWaiting[bk[1]].FileInfos)
                    /\ ResultsWaiting[bk[1]].FileInfos[bk[2]].AbsolutePath = p})
    + Cardinality({bk \in {<<b, k>> : b \in 1..Len(ResultsWaiting), k \in 1..MaxBatch} :
                    /\ bk[2] <= Len(ResultsWaiting[bk[1]].Errors)
                    /\ ResultsWaiting[bk[1]].Errors[bk[2]] = p})

\* the workers that hold a batch, to hash it or to send its result
HoldingWorkers == {w \in DOMAIN workers : workers[w].pc \in {"hash", "send"}}

\* C18: under every interleaving, from the start of the worker pool on, each
\* task is in exactly one place: in a batch that waits (not yet sent, in the job
\* channel, or held by one worker), in one batch result that waits, or in the
\* catalog or the warnings; no two workers hold batches with a task in common,
\* and the catalog never has two records of one task.
C18_EachTaskOnce ==
    OnParallelPath =>
        /\ \A i \in 1..Len(allTasks) :
                Presence(allTasks[i].Path)
                    = Cardinality({j \in 1..Len(allTasks) :
                                        allTasks[j].Path = allTasks[i].Path})
        /\ \A w1, w2 \in HoldingWorkers :
                w1 # w2 => Recs(workers[w1].job) \cap Recs(workers[w2].job) = {}
        /\ \A i, j \in 1..Len(fileSet.Files) :
                i # j => fileSet.Files[i].ptr # fileSet.Files[j].ptr

\* two workers hold a batch each while a third batch waits in the job channel
C18_Witness ==
    /\ pc = "par"
    /\ Cardinality(HoldingWorkers) = 2
    /\ \A w \in HoldingWorkers : Len(workers[w].job) > 1
    /\ Len(jobChannel.q) > 0

\* processFilesInParallel has returned and all its goroutines have ended
ParallelDone ==
    /\ ScanReturned
    /\ jobChannel.closed
    /\ feeder = Len(jobs) + 1
    /\ \A w \in DOMAIN workers : workers[w].pc = "exit"
    /\ resultChannel.closed

\* C19: when the goroutines are scheduled fairly, every call of
\* processFilesInParallel, for every number of tasks (none and one among them),
\* every number of workers (more workers than batches among them) and every
\* pattern of files that cannot be hashed, leads to the state where the job
\* channel is closed, every worker has returned, the results channel is closed
\* and the function has returned; the run never stops before.
C19_RunsToCompletion ==
    /\ (pc = "callpar") ~> ParallelDone
    /\ []((pc \in {"callpar", "par"}) => ENABLED NextPar)

\* a call with no task and a call with fewer batches than workers have
\* returned: here the one with workers that never received a batch
C19_Witness ==
    /\ ParallelDone
    /\ OnParallelPath
    /\ Len(workers) > Len(jobs)
    /\ FailingTasks # {}

\* a call with no task at all has returned
C19_WitnessNoTask ==
    /\ ParallelDone
    /\ OnParallelPath
    /\ Len(allTasks) = 0
    /\ Len(workers) > 1

----------------------------------------------------------------------------
(* Properties of the build phase of the trees *)

RECURSIVE NodeAt(_, _, _, _)
\* the node reached from node by the directory segments parts[i], parts[i+1],
\* ... (the last part is the file name), NoNode if a segment has no node
NodeAt(heap, node, parts, i) ==
    IF i >= Len(parts) THEN node
    ELSE IF parts[i] \in DOMAIN heap[node].Children
    THEN NodeAt(heap, heap[node].Children[parts[i]], parts, i + 1)
    ELSE NoNode

RECURSIVE FilesIn(_, _)
\* the number of files in the Files lists of the nodes ns
FilesIn(heap, ns) ==
    IF ns = {} THEN 0
    ELSE LET n == CHOOSE x \in ns : TRUE
         IN  Len(heap[n].Files) + FilesIn(heap, ns \ {n})

\* the nodes of the returned tree
TreeNodes == Reachable(tree.heap, tree.root)

\* C20: after buildTree or buildSmartTree on a list of records, every record
\* is once in the Files list of the node that the directory segments of its
\* relative path lead to from the root, the Files lists of the tree hold
\* len(list) records in all, and every directory node other than the root has
\* the path of a directory above some record of the list; an empty list gives
\* a root without file, child or marked node, and a single record at top level
\* gives a root with that one file and no child.
C20_EveryRecordPlaced ==
    TreeBuilt =>
        /\ \A f \in Recs(treeArgs.files) :
            LET n == NodeAt(tree.heap, tree.root, Split(f.RelativePath), 1)
            IN  /\ n # NoNode
                /\ n \in TreeNodes
                /\ Occurrences(tree.heap[n].Files, f) = 1
        /\ FilesIn(tree.heap, TreeNodes) = Len(treeArgs.files)
        /\ \A n \in TreeNodes \ {tree.root} :
            \E f \in Recs(treeArgs.files) :
                IsUnder(f.RelativePath, DirPath(tree.heap, n))
        /\ treeArgs.files = <<>> =>
            /\ tree.heap[tree.root].Files = <<>>
            /\ DOMAIN tree.heap[tree.root].Children = {}
            /\ EntireNodes = {}
        /\ (Len(treeArgs.files) = 1 /\ Dir(treeArgs.files[1].RelativePath) = Dot) =>
            /\ tree.heap[tree.root].Files = treeArgs.files
            /\ DOMAIN tree.heap[tree.root].Children = {}

\* buildTree has placed three records: one at top level, one in a directory
\* and one in a directory beneath that one
C20_Witness ==
    /\ pc = "builtSimple"
    /\ Len(treeArgs.files) = 3
    /\ Len(tree.heap[tree.root].Files) = 1
    /\ \E n \in TreeNodes \ {tree.root} :
        /\ Len(tree.heap[n].Files) > 0
        /\ \E c \in ChildNodes(tree.heap, n) : Len(tree.heap[c].Files) > 0

\* buildSmartTree has placed records in a directory and beneath it
C20_WitnessSmart ==
    /\ pc = "built"
    /\ Len(treeArgs.files) = 3
    /\ \E n \in TreeNodes \ {tree.root} :
        /\ Len(tree.heap[n].Files) > 0
        /\ \E c \in ChildNodes(tree.heap, n) : Len(tree.heap[c].Files) > 0

----------------------------------------------------------------------------
(* Properties of removeEmptyDirectories *)

\* removeEmptyDirectories has returned from its first call on the tree
Pruned == pc \in {"pruned", "prunedTwice"}

\* a file lies in node n or beneath it: a file record or a file node
LeadsToFile(heap, n) ==
    \E m \in Reachable(heap, n) : Len(heap[m].Files) > 0 \/ ~heap[m].IsDir

\* the nodes of the tree before the call that the first call has removed
RemovedNodes ==
    Reachable(pruning.before.heap, pruning.before.root)
        \ Reachable(pruning.first.heap, pruning.first.root)

\* the nodes the first call has kept
KeptNodes == Reachable(pruning.first.heap, pruning.first.root)

\* C21: after removeEmptyDirectories(root), every directory node still
\* reachable from the root, the root apart, has a file or a child, and a file
\* lies in it or beneath it; a node is removed only if it is a directory with
\* no file in it or anywhere beneath it; and every kept node has the files, the
\* name, the parent and the mark it had.
C21_PruneKeepsFiles ==
    Pruned =>
        /\ \A n \in KeptNodes \ {pruning.first.root} :
            pruning.first.heap[n].IsDir =>
                /\ \/ Len(pruning.first.heap[n].Files) > 0
                   \/ DOMAIN pruning.first.heap[n].Children # {}
                /\ LeadsToFile(pruning.first.heap, n)
        /\ \A n \in RemovedNodes :
                /\ pruning.before.heap[n].IsDir
                /\ ~LeadsToFile(pruning.before.heap, n)
        /\ KeptNodes \subseteq Reachable(pruning.before.heap, pruning.before.root)
        /\ \A n \in KeptNodes :
                /\ pruning.first.heap[n].Files = pruning.before.heap[n].Files
                /\ pruning.first.heap[n].Name = pruning.before.heap[n].Name
                /\ pruning.first.heap[n].Parent = pruning.before.heap[n].Parent
                /\ pruning.first.heap[n].IsEntireDir = pruning.before.heap[n].IsEntireDir

\* a call that removed a directory together with a directory in it, and kept
\* a directory without files of its own because of a file node in it
C21_Witness ==
    /\ Pruned
    /\ \E n \in RemovedNodes : ChildNodes(pruning.before.heap, n) # {}
    /\ \E n \in KeptNodes \ {pruning.first.root} :
        /\ pruning.first.heap[n].Files = <<>>
        /\ \E c \in ChildNodes(pruning.first.heap, n) :
                LeadsToFile(pruning.first.heap, c)

\* a call that kept two directories without files of their own, one in the
\* other, because the directory in them holds a file record
C21_WitnessChain ==
    /\ Pruned
    /\ \E n \in KeptNodes \ {pruning.first.root} :
        /\ pruning.first.heap[n].Files = <<>>
        /\ \E c \in ChildNodes(pruning.first.heap, n) :
            /\ pruning.first.heap[c].Files = <<>>
            /\ \E g \in ChildNodes(pruning.first.heap, c) :
                    Len(pruning.first.heap[g].Files) > 0
    /\ RemovedNodes # {}

\* removeEmptyDirectories has returned from its second call on the tree
PrunedTwice == pc = "prunedTwice"

\* C22: a second removeEmptyDirectories(root) on the tree the first call left
\* removes nothing: nodes, children maps, files and marks are what they were
\* after the first call, and the second call returns for the root what the
\* first call returned.
C22_PruneIdempotent ==
    PrunedTwice =>
        /\ tree = pruning.first
        /\ Reachable(tree.heap, tree.root) = KeptNodes
        /\ Len(pruning.keep) = 2
        /\ pruning.keep[2] = pruning.keep[1]

\* the second call has returned on a tree from which the first call removed a
\* directory with a directory in it and in which it kept directories
C22_Witness ==
    /\ PrunedTwice
    /\ \E n \in RemovedNodes : ChildNodes(pruning.before.heap, n) # {}
    /\ Cardinality(KeptNodes) > 2
    /\ pruning.keep = <<TRUE, TRUE>>

\* the second call has returned on a tree of empty directories only: both
\* calls tell that the root holds nothing
C22_WitnessEmpty ==
    /\ PrunedTwice
    /\ RemovedNodes # {}
    /\ pruning.keep = <<FALSE, FALSE>>

----------------------------------------------------------------------------
(* Relations between comparisons *)

\* the lists that hold the records of the list q in any order
Reorderings(q) ==
    {[i \in 1..Len(q) |-> q[f[i]]] :
        f \in {g \in [1..Len(q) -> 1..Len(q)] :
                \A i, j \in 1..Len(q) : i # j => g[i] # g[j]}}

\* two results hold the same records in each list, and the same keys with
\* the same target records in NameMappings
SameResult(r1, r2) ==
    /\ Recs(r1.SameNameDifferentHash) = Recs(r2.SameNameDifferentHash)
    /\ Recs(r1.UniqueToSet1) = Recs(r2.UniqueToSet1)
    /\ Recs(r1.UniqueToSet2) = Recs(r2.UniqueToSet2)
    /\ DOMAIN r1.NameMappings = DOMAIN r2.NameMappings
    /\ \A k \in DOMAIN r1.NameMappings :
            Recs(r1.NameMappings[k]) = Recs(r2.NameMappings[k])

\* C23: for every order of the records of set1 and every order of the records
\* of set2, the indexes filled in that order, compareFileSets returns the same
\* sets of modified records, of records unique to set1 and of records unique
\* to set2, and NameMappings with the same keys and the same set of records
\* under each key.
C23_OrderIndependent ==
    pc = "compared" =>
        \A q1 \in Reorderings(set1.Files), q2 \in Reorderings(set2.Files) :
            SameResult(compareFileSets(MakeFileSet(q1), MakeFileSet(q2)), result)

\* a comparison of catalogs of several records each, with a modified record
\* whose name two records of set1 carry and a record unique to set2
C23_Witness ==
    /\ pc = "compared"
    /\ Len(set1.Files) > 1
    /\ Len(set2.Files) > 2
    /\ \E k \in DOMAIN result.NameMappings : Len(result.NameMappings[k]) > 1
    /\ Len(result.UniqueToSet2) > 0

----------------------------------------------------------------------------
(* Properties of hashFile *)

\* the path of a call holds bytes that can be read
Readable(call) ==
    call.path \in DOMAIN disk.content /\ disk.content[call.path] # Unreadable

\* the fingerprint of no bytes
EmptyFingerprint == "e3b0c44298fc1c149afbf4c8996fb92427ae41e4649b934ca495991b7852b855"

C24_WitnessEmpty ==
    /\ Len(hashed) = 2
    /\ Readable(hashed[1])
    /\ disk.content[hashed[1].path] = ""
    /\ ~Readable(hashed[2])

----------------------------------------------------------------------------
(* The order of the records of a catalog *)

\* the records of the tasks of the list q that can be hashed, in the order of q
RecordsInOrder(q) ==
    LET ok == SelectSeq(q, LAMBDA t : ~hashFile(disk, t.Path).err)
    IN  [k \in 1..Len(ok) |-> TaskInfo(ok[k], hashFile(disk, ok[k].Path).hash)]

\* the list part lies in the list q as one piece
Contiguous(part, q) ==
    \E o \in 0..(Len(q) - Len(part)) : SubSeq(q, o + 1, o + Len(part)) = part

\* C25: the catalog processFilesSequentially returns lists the records of the
\* tasks that could be hashed in the order of the tasks; in the catalog
\* processFilesInParallel returns, the records of each batch lie together and
\* in the order of their tasks in the batch, whatever the order in which the
\* batches arrived.
C25_OrderOfRecords ==
    ScanOver =>
        /\ OnSequentialPath => fileSet.Files = RecordsInOrder(allTasks)
        /\ OnParallelPath =>
            \A b \in 1..Len(jobs) : Contiguous(RecordsInOrder(jobs[b]), fileSet.Files)

\* the worker pool returned a catalog that begins with records of another
\* batch than the first, a batch with a file that could not be hashed among
\* the batches
C25_Witness ==
    /\ ScanReturned
    /\ OnParallelPath
    /\ Len(jobs) > 1
    /\ Len(RecordsInOrder(jobs[1])) > 1
    /\ Len(RecordsInOrder(jobs[1])) < Len(jobs[1])
    /\ fileSet.Files[1] # RecordsInOrder(jobs[1])[1]

\* the sequential loop returned the records of the tasks around a task that
\* could not be hashed
C25_WitnessSequential ==
    /\ ScanReturned
    /\ OnSequentialPath
    /\ Len(allTasks) > 2
    /\ FailingTasks # {}
    /\ Len(fileSet.Files) > 1

----------------------------------------------------------------------------
(* The batches of processFilesInParallel *)

\* the greater of two numbers
Max(a, b) == IF a > b THEN a ELSE b

\* C26: with n tasks and w workers the batches of processFilesInParallel are
\* slices of the task list, one after the other, that together are the task
\* list; no two batches share a task and no batch is empty; every batch but the
\* last holds max(10, n div (2 * w)) tasks and the last holds at least one and
\* at most that many; without tasks there is no batch.
C26_BatchesPartitionTasks ==
    OnParallelPath =>
        LET n == Len(allTasks)
            w == Len(workers)
            size == Max(10, n \div (2 * w))
        IN  /\ w = Max(1, (numCPU * 3) \div 4)
            /\ Flatten(jobs) = allTasks
            /\ \A b \in 1..Len(jobs) :
                /\ Len(jobs[b]) >= 1
                /\ Len(jobs[b]) <= size
                /\ b < Len(jobs) => Len(jobs[b]) = size
            /\ \A b1, b2 \in 1..Len(jobs) :
                b1 # b2 => Recs(jobs[b1]) \cap Recs(jobs[b2]) = {}
            /\ n = 0 <=> jobs = <<>>
            /\ jobChannel.cap = Len(jobs)
            /\ resultChannel.cap = Len(jobs)

\* 23 tasks for one worker: two batches of 11 tasks and a last batch of one
C26_Witness ==
    /\ OnParallelPath
    /\ Len(workers) = 1
    /\ Len(jobs) = 3
    /\ Len(jobs[1]) = 11
    /\ Len(jobs[2]) = 11
    /\ Len(jobs[3]) = 1

\* no task: no batch
C26_WitnessNoTask ==
    /\ OnParallelPath
    /\ Len(allTasks) = 0
    /\ jobs = <<>>

----------------------------------------------------------------------------
(* The results of the batches *)

\* the caller has received and merged the result of batch number b: every
\* task of the batch has its record in the catalog or its warning
BatchMerged(b) ==
    \A k \in 1..Len(jobs[b]) :
        \/ \E r \in Recs(fileSet.Files) : r.ptr = <<"scan", jobs[b][k].id>>
        \/ /\ hashFile(disk, jobs[b][k].Path).err
           /\ Occurrences(warnings, Warning("hash", jobs[b][k].Path)) > 0

\* the batches whose result the caller has received
ReceivedBatches == {b \in 1..Len(jobs) : BatchMerged(b)}

\* the batches of which no file can be hashed
FailingBatches ==
    {b \in 1..Len(jobs) : \A k \in 1..Len(jobs[b]) : hashFile(disk, jobs[b][k].Path).err}

\* C27: every batch is in one place: not yet sent, in the job channel, held
\* by a worker, as one result in the results channel, or received by the
\* caller; when processFilesInParallel returns the caller has received one
\* result for every batch, also for a batch of which no file could be hashed.
\* The job channel and the results channel have room for every batch, so the
\* feeder finds room for each send and a worker finds room for its result,
\* also while the caller has received nothing.
C27_OneResultPerBatch ==
    OnParallelPath =>
        /\ (Len(jobs) - feeder + 1) + Len(jobChannel.q) + Cardinality(HoldingWorkers)
                + Len(resultChannel.q) + Cardinality(ReceivedBatches) = Len(jobs)
        /\ ScanOver => ReceivedBatches = 1..Len(jobs)
        /\ feeder <= Len(jobs) => Len(jobChannel.q) < jobChannel.cap
        /\ \A w \in DOMAIN workers :
            workers[w].pc = "send" =>
                /\ Len(resultChannel.q) < resultChannel.cap
                /\ ~resultChannel.closed

\* every batch has its result in the results channel and the caller has
\* received none yet; no file of one of the batches could be hashed
C27_Witness ==
    /\ pc = "par"
    /\ Len(jobs) > 1
    /\ Len(resultChannel.q) = Len(jobs)
    /\ fileSet.Files = <<>>
    /\ warnings = <<>>
    /\ FailingBatches # {}

----------------------------------------------------------------------------
(* The marks of a tree, downwards *)

\* the nodes of the returned tree strictly above node m
Ancestors(m) == {a \in TreeNodes : m \in Reachable(tree.heap, a) \ {a}}

\* C28: in the tree buildSmartTree returns, every directory node beneath a
\* node marked entire is marked entire as well, and a node that is not marked
\* has no marked node above it.
C28_MarksDownwardClosed ==
    TreeBuilt =>
        /\ \A n \in EntireNodes :
            \A m \in Reachable(tree.heap, n) :
                tree.heap[m].IsDir => tree.heap[m].IsEntireDir
        /\ \A m \in TreeNodes :
            ~tree.heap[m].IsEntireDir => Ancestors(m) \cap EntireNodes = {}

\* a marked node with a file of its own and a directory node beneath it, in
\* a tree that has an unmarked node beside the root as well
C28_Witness ==
    /\ TreeBuilt
    /\ \E n \in EntireNodes :
        /\ Len(tree.heap[n].Files) > 0
        /\ \E c \in ChildNodes(tree.heap, n) : tree.heap[c].IsDir
    /\ \E m \in TreeNodes \ {tree.root} : ~tree.heap[m].IsEntireDir

----------------------------------------------------------------------------
(* The unique lists, the catalogs exchanged *)

\* compareFileSets called with the two catalogs exchanged
Exchanged == compareFileSets(set2, set1)

\* C29: the unique lists are symmetric under the exchange of the arguments:
\* UniqueToSet1 of compareFileSets(A, B) holds the records of UniqueToSet2 of
\* compareFileSets(B, A), each once, and UniqueToSet2 of compareFileSets(A, B)
\* holds the records of UniqueToSet1 of compareFileSets(B, A).
C29_UniqueListsSymmetric ==
    pc = "compared" =>
        /\ Recs(result.UniqueToSet1) = Recs(Exchanged.UniqueToSet2)
        /\ Len(result.UniqueToSet1) = Len(Exchanged.UniqueToSet2)
        /\ Recs(result.UniqueToSet2) = Recs(Exchanged.UniqueToSet1)
        /\ Len(result.UniqueToSet2) = Len(Exchanged.UniqueToSet1)

\* both unique lists hold records, the first more than one
C29_Witness ==
    /\ pc = "compared"
    /\ Len(result.UniqueToSet1) > 1
    /\ result.UniqueToSet2 # <<>>

\* the first unique list holds a record, and another record of the first
\* catalog is kept out of it by its name alone
C29_WitnessName ==
    /\ pc = "compared"
    /\ result.UniqueToSet1 # <<>>
    /\ \E r \in Recs(set1.Files) :
        /\ ~Matched(r, set2)
        /\ r \notin Recs(result.UniqueToSet1)

----------------------------------------------------------------------------
(* The tree of buildSmartTree before removeEmptyDirectories is called *)

\* the heap after the loop over the files
BuiltHeap == InsertFiles(RootOnly.heap, RootOnly.root, treeArgs.files, 1)

\* the heap after markEntireDirectoriesNew
MarkedHeap ==
    markEntireDirectoriesNew(BuiltHeap, RootOnly.root, treeArgs.source, treeArgs.other,
                             DirectoriesInSourceSet(treeArgs.source))

\* the records in node n of a heap and in all nodes beneath it
HeapFilesBeneath(heap, n) == UNION {Recs(heap[m].Files) : m \in Reachable(heap, n)}

\* C30: in buildSmartTree as main calls it, every directory node the loop
\* over the files makes has a file in it or beneath it, and the call of
\* removeEmptyDirectories after the marking takes no node away: the tree
\* returned is the marked tree, with the same nodes, children, files and
\* marks.
C30_PruningChangesNothing ==
    TreeBuilt =>
        /\ \A n \in 1..Len(BuiltHeap) :
            BuiltHeap[n].IsDir => HeapFilesBeneath(BuiltHeap, n) # {}
        /\ Reachable(BuiltHeap, RootOnly.root) = 1..Len(BuiltHeap)
        /\ tree.root = RootOnly.root
        /\ tree.heap = MarkedHeap
        /\ TreeNodes = 1..Len(BuiltHeap)

\* a tree of main with a directory node that has no file of its own, only a
\* directory beneath it, and with a marked and an unmarked node
C30_Witness ==
    /\ pc \in {"shown2", "done"}
    /\ TreeBuilt
    /\ \E n \in TreeNodes \ {tree.root} :
        /\ tree.heap[n].Files = <<>>
        /\ ChildNodes(tree.heap, n) # {}
    /\ EntireNodes # {}
    /\ \E m \in TreeNodes \ {tree.root} : ~tree.heap[m].IsEntireDir

============================================================================
